---- MODULE Spec2Model ----
(***************************************************************************)
(* Data-fetch orchestration layer of web3-telegram-bot:                    *)
(*   utils/cache_helper.py   QueryCache (file cache with TTL and budget)   *)
(*   utils/graph_helper.py   GraphClient.query (cache, rate limit, retry)  *)
(*   analytics/transfers_analytics.py  plan selection, chunking, merge     *)
(* Time is counted in milliseconds of wall clock.                          *)
(***************************************************************************)
EXTENDS Integers, Sequences, FiniteSets, TLC

VARIABLES
  now,        \* wall clock (datetime.now() / time.time()), in ms
  files,      \* cache directory: cache key -> file (payload, mtime) or NoFile
  cache,      \* the QueryCache object: ttl, max_cache_size_bytes, stats
  client,     \* the GraphClient object: configuration, last_request_time, stats
  pc,         \* position of the caller inside GraphClient.query
  call,       \* arguments and loop variables of the query call in progress
  op,         \* the last completed operation and what it returned or raised
  hist,       \* observation of the outbound requests and sleeps
  ncalls,     \* number of operations started so far
  mx,         \* a call of TransfersAnalytics._merge_transfers: arguments, result
  hx,         \* a call of TransfersAnalytics.get_transfers_hybrid in progress
  kx,         \* observation of the cache directory: a set/get pair, evictions
  bx,         \* a caller of GraphClient.query in progress: batch_query,
              \* health_check or CachedGraphClient.query_with_custom_ttl
  ax,         \* a call of TransfersAnalytics.analyze_transfers: arguments, result
  cx,         \* callers running GraphClient.query concurrently on one client
  rl,         \* the RateLimiter object and the commands it has let through
  lx,         \* a call of TransfersAnalytics._get_transfers_rpc parsing its logs
  vx          \* a call of Validators.validate_eth_address: argument, result

vars == <<now, files, cache, client, pc, call, op, hist, ncalls, mx, hx, kx, bx,
          ax, cx, rl, lx, vx>>
restVars == <<ax, cx, rl, lx, vx>>
clientVars == <<now, files, cache, client, pc, call, op, hist, ncalls>>

----------------------------------------------------------------------------
(* Bounds of the exploration *)
MaxCacheOps == 4     \* cache operations and clock steps per behaviour
MaxCalls == 2        \* GraphClient.query calls per behaviour
MaxRetriesCfg == 2   \* largest configured max_retries
MaxTransfers == 3    \* transfers handed to one _merge_transfers call
MaxBlock == 5        \* largest block number requested
MaxMaxBlocks == 2    \* largest max_blocks argument
MaxCallers == 2      \* callers sharing one GraphClient
MaxTicks == 3        \* clock steps while callers run concurrently
MaxCommands == 4     \* commands sent through the rate_limited decorator
MaxLogs == 3         \* logs returned by one get_logs call
MaxPad == 1          \* whitespace characters on each side of an address argument
MaxOff == 2          \* how far the number of characters after the prefix is from 40

(* Units *)
MsPerSecond == 1000
\* the clock reading when the process starts (any reading of the epoch clock
\* is far larger than every interval, TTL and backoff used below)
StartTime == 100 * MsPerSecond
SecondsPerMinute == 60
BytesPerMb == 1048576

----------------------------------------------------------------------------
(* Values *)

\* A GraphQL response body (a JSON object).  nbytes is the size of its
\* serialization on disk.
Resp(hasData, data, hasErrors, nbytes) ==
  [has_data |-> hasData, data |-> data, has_errors |-> hasErrors, nbytes |-> nbytes]

RespD1 == Resp(TRUE, "d1", FALSE, 700000)
RespD2 == Resp(TRUE, "d2", FALSE, 400000)
RespEmpty == Resp(FALSE, "", FALSE, 2)          \* {}
RespErrors == Resp(FALSE, "", TRUE, 300)        \* {"errors": [...]}
RespPartial == Resp(TRUE, "d1", TRUE, 700300)   \* {"data": ..., "errors": [...]}
NoResp == Resp(FALSE, "none", FALSE, 0)

JsonObjects == {RespD1, RespD2, RespEmpty, RespErrors, RespPartial}

Truthy_negated(r) == ~(r.has_data \/ r.has_errors)

\* Python truthiness of a dict: non-empty
Truthy(r) == r.has_data \/ r.has_errors

\* Optional[Dict]
None == [some |-> FALSE, val |-> NoResp]
Some(r) == [some |-> TRUE, val |-> r]

\* Query texts are strings (sequences of characters); " " is whitespace.
Queries == { <<"a">>, <<" ", "a", " ">>, <<"b">> }

\* variables: None or a dict, a dict being its items in insertion order
NoneVars == [is_none |-> TRUE, items |-> <<>>]
Dict(items) == [is_none |-> FALSE, items |-> items]
VariableArgs ==
  { NoneVars, Dict(<<>>),
    Dict(<< <<"x", "1">>, <<"y", "2">> >>),
    Dict(<< <<"y", "2">>, <<"x", "1">> >>) }

----------------------------------------------------------------------------
(* QueryCache._get_cache_key *)

IsSpace(c) == c \in {" ", "\n", "\t"}

RECURSIVE lstrip(_)
lstrip(s) == IF s # <<>> /\ IsSpace(Head(s)) THEN lstrip(Tail(s)) ELSE s

RECURSIVE rstrip(_)
rstrip(s) ==
  IF s # <<>> /\ IsSpace(s[Len(s)]) THEN rstrip(SubSeq(s, 1, Len(s) - 1)) ELSE s

strip(s) == rstrip(lstrip(s))

\* order of dict keys under sort_keys=True
NameRank(n) == CASE n = "x" -> 1 [] n = "y" -> 2 [] OTHER -> 3

RECURSIVE insert_sorted(_, _)
insert_sorted(item, s) ==
  IF s = <<>> THEN <<item>>
  ELSE IF NameRank(item[1]) < NameRank(Head(s)[1]) THEN <<item>> \o s
  ELSE <<Head(s)>> \o insert_sorted(item, Tail(s))

sort_keys_insertion_order(items) == items

RECURSIVE sort_keys(_)
sort_keys(items) ==
  IF items = <<>> THEN <<>>
  ELSE insert_sorted(items[Len(items)], sort_keys(SubSeq(items, 1, Len(items) - 1)))

RECURSIVE dump_items(_)
dump_items(items) ==
  IF items = <<>> THEN <<>>
  ELSE <<"\"", Head(items)[1], "\"", ":", " ", Head(items)[2]>>
       \o (IF Len(items) > 1 THEN <<",", " ">> ELSE <<>>)
       \o dump_items(Tail(items))

\* json.dumps(variables, sort_keys=True)
json_dumps(v) == <<"{">> \o dump_items(sort_keys(v.items)) \o <<"}">>

\* `if variables:` is false for None and for {}
VarsTruthy(v) == ~v.is_none /\ v.items # <<>>

\* hashlib.md5 is taken to be collision free on the contents that occur: the
\* key is the hashed content itself.
get_cache_key(query, variables) ==
  strip(query) \o (IF VarsTruthy(variables) THEN json_dumps(variables) ELSE <<>>)

CacheKeys == { get_cache_key(q, v) : q \in Queries, v \in VariableArgs }

----------------------------------------------------------------------------
(* The cache directory and the QueryCache object *)

NoFile == [exists |-> FALSE, payload |-> NoResp, mtime |-> 0]
File(payload, mtime) == [exists |-> TRUE, payload |-> payload, mtime |-> mtime]

st_size(f) == f.payload.nbytes

ZeroCacheStats == [hits |-> 0, misses |-> 0, writes |-> 0, expired |-> 0, errors |-> 0]

\* QueryCache.__init__ (the directory scan of cleanup_on_init finds nothing
\* in a fresh directory)
QueryCache_init(ttl_minutes, max_cache_size_mb) ==
  [ttl |-> ttl_minutes * SecondsPerMinute * MsPerSecond,
   max_cache_size_bytes |-> max_cache_size_mb * BytesPerMb,
   stats |-> ZeroCacheStats]

Bump(stats, field) == [stats EXCEPT ![field] = @ + 1]

is_expired_at_ttl(c, f, t) == t - f.mtime >= c.ttl

\* `datetime.now() - modified_time > self.ttl`
is_expired(c, f, t) == t - f.mtime > c.ttl

\* QueryCache.get.  fault = "read" makes reading the file raise.
\* Result: the cache object, the directory and the returned value.
QueryCache_get(c, fs, query, variables, t, fault) ==
  LET cache_key == get_cache_key(query, variables)
      f == fs[cache_key]
  IN  IF ~f.exists
        THEN [cache |-> [c EXCEPT !.stats = Bump(@, "misses")], files |-> fs, ret |-> None]
      ELSE IF is_expired(c, f, t)
        THEN [cache |-> [c EXCEPT !.stats = Bump(@, "expired")],
              files |-> [fs EXCEPT ![cache_key] = NoFile], ret |-> None]
      ELSE IF fault = "read"
        THEN [cache |-> [c EXCEPT !.stats = Bump(@, "errors")], files |-> fs, ret |-> None]
      ELSE [cache |-> [c EXCEPT !.stats = Bump(@, "hits")], files |-> fs, ret |-> Some(f.payload)]

total_size(fs) ==
  LET RECURSIVE sum(_)
      sum(S) == IF S = {} THEN 0
                ELSE LET k == CHOOSE k \in S : TRUE IN st_size(fs[k]) + sum(S \ {k})
  IN  sum({k \in DOMAIN fs : fs[k].exists})

SortedByMtime_newest_first(fs) ==
  LET E == {k \in DOMAIN fs : fs[k].exists}
      n == Cardinality(E)
  IN  { s \in [1..n -> E] :
          /\ \A i, j \in 1..n : i # j => s[i] # s[j]
          /\ \A i \in 1..(n-1) : fs[s[i]].mtime >= fs[s[i+1]].mtime }

\* `sorted(files, key=st_mtime)`: the orders of the existing files that are
\* non-decreasing in mtime (files of equal mtime come in directory order,
\* which is arbitrary)
SortedByMtime(fs) ==
  LET E == {k \in DOMAIN fs : fs[k].exists}
      n == Cardinality(E)
  IN  { s \in [1..n -> E] :
          /\ \A i, j \in 1..n : i # j => s[i] # s[j]
          /\ \A i \in 1..(n-1) : fs[s[i]].mtime <= fs[s[i+1]].mtime }

\* the removal loop of _enforce_size_limit over the sorted list
RECURSIVE remove_oldest(_, _, _, _)
remove_oldest(fs, order, size, budget) ==
  IF order = <<>> \/ size <= budget THEN fs
  ELSE remove_oldest([fs EXCEPT ![Head(order)] = NoFile], Tail(order),
                     size - st_size(fs[Head(order)]), budget)

\* QueryCache._enforce_size_limit: the directories it can leave
enforce_size_limit(c, fs) ==
  IF total_size(fs) <= c.max_cache_size_bytes THEN {fs}
  ELSE { remove_oldest(fs, order, total_size(fs), c.max_cache_size_bytes) :
           order \in SortedByMtime(fs) }

\* the entries unlinked by the enforcement pass of a set that wrote cache_key:
\* present once the file is written, absent when set returns
removed_by_set(fs, fs2, cache_key) ==
  { k \in DOMAIN fs : (k = cache_key \/ fs[k].exists) /\ ~fs2[k].exists }

QueryCache_set_uncounted(c, fs, query, result, variables, t, fault) ==
  LET cache_key == get_cache_key(query, variables)
  IN  IF fault = "write"
        THEN { [cache |-> c, files |-> fs] }
      ELSE { [cache |-> [c EXCEPT !.stats = Bump(@, "writes")], files |-> fs2] :
               fs2 \in enforce_size_limit(c, [fs EXCEPT ![cache_key] = File(result, t)]) }

\* QueryCache.set.  fault = "write" makes opening the file raise.
\* Result: the set of (cache object, directory) it can leave.
QueryCache_set(c, fs, query, result, variables, t, fault) ==
  LET cache_key == get_cache_key(query, variables)
  IN  IF fault = "write"
        THEN { [cache |-> [c EXCEPT !.stats = Bump(@, "errors")], files |-> fs] }
      ELSE { [cache |-> [c EXCEPT !.stats = Bump(@, "writes")], files |-> fs2] :
               fs2 \in enforce_size_limit(c, [fs EXCEPT ![cache_key] = File(result, t)]) }

\* QueryCache.get_stats()['entry_count']
entry_count(fs) == Cardinality({k \in DOMAIN fs : fs[k].exists})

----------------------------------------------------------------------------
(* The objects before any client exists / outside a query call *)

NoClient ==
  [cache_enabled |-> FALSE, max_retries |-> 0, min_request_interval |-> 0,
   last_request_time |-> 0,
   stats |-> [total_queries |-> 0, cache_hits |-> 0, cache_misses |-> 0,
              failed_queries |-> 0, retry_count |-> 0]]

NoCall ==
  [query |-> <<>>, variables |-> NoneVars, use_cache |-> FALSE,
   retry_on_error |-> FALSE, max_attempts |-> 0, attempt |-> 0]

\* hist: start times of the last two outbound requests; for the call in
\* progress (or just finished) the number of requests sent, what the endpoint
\* did with each, the body it sent last, the backoff sleeps taken and the
\* client statistics when the call began
NoHist ==
  [prev_request |-> -1, last_request |-> -1, attempts |-> 0, outcomes |-> <<>>,
   response |-> NoResp, sleeps |-> <<>>, stats0 |-> NoClient.stats]

\* op: name of the operation, the cache key it addressed, the value it
\* returned (None when it raised) and the exception class it raised
Op(name, key, ret, raised) == [name |-> name, key |-> key, ret |-> ret, raised |-> raised]
NoOp == Op("none", <<>>, None, "")

EmptyDir == [k \in CacheKeys |-> NoFile]

\* no _merge_transfers call yet
NoMerge == [pc |-> "none", historical |-> <<>>, recent |-> <<>>, merged |-> <<>>]

\* Optional[int]
NoneInt == [some |-> FALSE, n |-> 0]
Int_(n) == [some |-> TRUE, n |-> n]

\* no get_transfers_hybrid call yet
NoHybrid ==
  [pc |-> "none", current_block |-> 0, from_arg |-> NoneInt, to_arg |-> NoneInt,
   max_blocks |-> 0, use_subgraph |-> FALSE, has_client |-> FALSE,
   from_block |-> 0, to_block |-> 0, plan |-> "none", rpc_cutoff |-> 0,
   queries |-> <<>>, current_from |-> 0, raised |-> FALSE,
   failed |-> {}, ret_kind |-> "none", ret_blocks |-> {}]

\* kx: the entries the last QueryCache.set removed while enforcing the size
\* budget; the arguments and the outcome of a set followed by a get
NoKey ==
  [pc |-> "none", evicted |-> {}, set_query |-> <<>>, set_variables |-> NoneVars,
   get_query |-> <<>>, get_variables |-> NoneVars, payload |-> NoResp, ret |-> None]

\* bx: no caller of GraphClient.query in progress.
\*   pc            "idle", "in_query" (inside self.query), "between" (two
\*                 items of a batch), "returned"
\*   kind          the method: "custom_ttl", "batch", "health"
\*   ttl0          cache.ttl when the method was entered
\*   original_ttl  the local of query_with_custom_ttl
\*   queries .. results   arguments and locals of batch_query
\*   calls         what each self.query of the method returned or raised
\*   files0, stats0, requests0, queries0   directory, store tallies, time
\*                 of the last outbound request and total_queries when the
\*                 method was entered
\*   ret, healthy, raised   what the method returned (healthy: the boolean
\*                 of health_check) or raised
NoWrap ==
  [pc |-> "idle", kind |-> "none", ttl0 |-> 0, original_ttl |-> NoneInt,
   query_type |-> "default", queries |-> <<>>, use_cache |-> FALSE,
   delay_between |-> 0, i |-> 0, results |-> <<>>, calls |-> <<>>,
   files0 |-> EmptyDir, stats0 |-> ZeroCacheStats, requests0 |-> -1,
   queries0 |-> 0, ret |-> None, healthy |-> FALSE, raised |-> "",
   entered_at |-> -1, cached_at |-> -1, prior_cached_at |-> -1]

\* no analyze_transfers call, no concurrent callers, no RateLimiter, no log
\* parsing and no address validation
NoAnalyze ==
  [pc |-> "none", transfers |-> <<>>, wallet_address |-> <<>>, i |-> 0,
   stats |-> [total_transfers |-> 0, received_count |-> 0, sent_count |-> 0,
              total_received |-> 0, total_sent |-> 0, net_change |-> 0,
              unique_counterparties |-> {}, n_counterparties |-> 0]]
NoThreads == [th |-> <<>>, sent |-> <<>>, ticks |-> 0]
NoLimiter == [max_requests |-> 0, window |-> 0, requests |-> <<>>, admitted |-> <<>>,
              bodies |-> <<>>, replies |-> <<>>, last |-> <<>>, ncmd |-> 0, ticks |-> 0]
NoLogs == [pc |-> "none", logs |-> <<>>, wallet_address |-> <<>>, i |-> 0,
           transfers |-> <<>>, printed |-> 0, raised |-> FALSE]
NoValidate == [pc |-> "none", address |-> [is_none |-> TRUE, s |-> <<>>],
               ret |-> [valid |-> FALSE, msg |-> <<>>]]

NoOtherCall ==
  /\ ax = NoAnalyze
  /\ cx = NoThreads
  /\ rl = NoLimiter
  /\ lx = NoLogs
  /\ vx = NoValidate

----------------------------------------------------------------------------
(* Specification SpecCache: a QueryCache used directly *)

TtlMinutesCfg == {0, 1}
MaxCacheSizeMbCfg == {0, 1, 100}
TickSteps == {MsPerSecond, SecondsPerMinute * MsPerSecond}
StoredPayloads == {RespD1, RespD2}
GetFaults == {"none", "read"}
SetFaults == {"none", "write"}

InitCache ==
  /\ now = StartTime
  /\ files = EmptyDir
  /\ \E m \in TtlMinutesCfg, b \in MaxCacheSizeMbCfg : cache = QueryCache_init(m, b)
  /\ client = NoClient
  /\ pc = "idle"
  /\ call = NoCall
  /\ op = NoOp
  /\ hist = NoHist
  /\ ncalls = 0
  /\ mx = NoMerge
  /\ hx = NoHybrid
  /\ kx = NoKey
  /\ bx = NoWrap
  /\ NoOtherCall

\* the clock advances between operations
Tick ==
  /\ pc = "idle"
  /\ ncalls < MaxCacheOps
  /\ \E d \in TickSteps : now' = now + d
  /\ ncalls' = ncalls + 1
  /\ op' = Op("tick", <<>>, None, "")
  /\ UNCHANGED <<files, cache, client, pc, call, hist, mx, hx, kx, bx, restVars>>

CacheGet ==
  /\ pc = "idle"
  /\ ncalls < MaxCacheOps
  /\ \E q \in Queries, v \in VariableArgs, fault \in GetFaults :
       LET r == QueryCache_get(cache, files, q, v, now, fault)
       IN  /\ cache' = r.cache
           /\ files' = r.files
           /\ op' = Op(IF fault = "none" THEN "get" ELSE "get_fault",
                       get_cache_key(q, v), r.ret, "")
  /\ ncalls' = ncalls + 1
  /\ UNCHANGED <<now, client, pc, call, hist, mx, hx, kx, bx, restVars>>

CacheSet ==
  /\ pc = "idle"
  /\ ncalls < MaxCacheOps
  /\ \E q \in Queries, v \in VariableArgs, p \in StoredPayloads, fault \in SetFaults :
       \E r \in QueryCache_set(cache, files, q, p, v, now, fault) :
           /\ cache' = r.cache
           /\ files' = r.files
           /\ op' = Op(IF fault = "none" THEN "set" ELSE "set_fault",
                       get_cache_key(q, v), None, "")
           /\ kx' = [kx EXCEPT !.evicted = removed_by_set(files, r.files, get_cache_key(q, v))]
  /\ ncalls' = ncalls + 1
  /\ UNCHANGED <<now, client, pc, call, hist, mx, hx, bx, restVars>>

NextCache == Tick \/ CacheGet \/ CacheSet

SpecCache == InitCache /\ [][NextCache]_vars

----------------------------------------------------------------------------
(* GraphClient *)

ZeroClientStats ==
  [total_queries |-> 0, cache_hits |-> 0, cache_misses |-> 0,
   failed_queries |-> 0, retry_count |-> 0]

\* rate_limit_per_second is a float: a ratio num/den of requests per second
Rate(num, den) == [num |-> num, den |-> den]

\* `1.0 / rate_limit_per_second if rate_limit_per_second > 0 else 0`, in ms
min_request_interval(rate) ==
  IF rate.num > 0 THEN (MsPerSecond * rate.den) \div rate.num ELSE 0

\* GraphClient.__init__
GraphClient_init(cache_enabled, rate_limit_per_second, max_retries) ==
  [cache_enabled |-> cache_enabled,
   max_retries |-> max_retries,
   min_request_interval |-> min_request_interval(rate_limit_per_second),
   last_request_time |-> 0,
   stats |-> ZeroClientStats]

\* the `timeout` argument of GraphClient.__init__, in seconds
DefaultTimeout == 30
\* the max_cache_size_mb default of QueryCache.__init__
DefaultMaxCacheSizeMb == 100

\* What the endpoint does with one HTTP request.
Outcome(kind, status, body) == [kind |-> kind, status |-> status, body |-> body]
Outcomes ==
  { Outcome("response", 200, b) : b \in JsonObjects }
  \cup { Outcome("response", 429, NoResp), Outcome("response", 500, NoResp),
         Outcome("malformed", 200, NoResp),
         Outcome("timeout", 0, NoResp), Outcome("connection_error", 0, NoResp) }

\* what an observer of the wire sees: a throttling answer, a well-formed
\* answer without errors, or any other failure
Label(o) ==
  IF o.kind = "response" /\ o.status = 429 THEN "429"
  ELSE IF o.kind = "response" /\ o.status = 200 /\ ~o.body.has_errors THEN "ok"
  ELSE "fail"

carries_errors_never(body) == FALSE

\* `if 'errors' in data`
carries_errors(body) == body.has_errors

\* GraphClient._execute_request: the value returned or the exception raised
Returned(r) == [raised |-> "", val |-> r]
Raised(e) == [raised |-> e, val |-> NoResp]

execute_request_status_first(o) ==
  IF o.kind = "timeout" THEN Raised("GraphClientError")
  ELSE IF o.kind = "connection_error" THEN Raised("GraphClientError")
  ELSE IF o.status >= 400 THEN Raised("GraphClientError")
  ELSE IF o.kind = "malformed" THEN Raised("GraphClientError")
  ELSE IF o.body.has_errors THEN Raised("GraphClientError")
  ELSE Returned(o.body)

execute_request(o) ==
  IF o.kind = "timeout" THEN Raised("GraphClientError")             \* requests Timeout
  ELSE IF o.kind = "connection_error" THEN Raised("GraphClientError") \* RequestException
  ELSE IF o.status = 429 THEN Raised("RateLimitError")
  ELSE IF o.status >= 400 THEN Raised("GraphClientError")           \* raise_for_status
  ELSE IF o.kind = "malformed" THEN Raised("GraphClientError")      \* ValueError
  ELSE IF carries_errors(o.body) THEN Raised("GraphClientError")    \* 'errors' in data
  ELSE Returned(o.body)

\* how long the request blocks the caller
\* (a timeout after `timeout` seconds; any other answer is taken to arrive
\* at once, the case that leaves the least time between two requests)
RequestTimes(o) ==
  IF o.kind = "timeout" THEN {DefaultTimeout * MsPerSecond} ELSE {0}

\* sleeps for the time already elapsed instead of the time remaining
rate_limit_wait_elapsed(cl, t) ==
  IF cl.min_request_interval > 0
     /\ t - cl.last_request_time < cl.min_request_interval
  THEN t - cl.last_request_time
  ELSE 0

\* GraphClient._enforce_rate_limit: how long it sleeps when entered at time t
rate_limit_wait(cl, t) ==
  IF cl.min_request_interval > 0
     /\ t - cl.last_request_time < cl.min_request_interval
  THEN cl.min_request_interval - (t - cl.last_request_time)
  ELSE 0

\* ... and the client it leaves when the sleep ends at time t
rate_limit_mark(cl, t) ==
  IF cl.min_request_interval > 0 THEN [cl EXCEPT !.last_request_time = t] ELSE cl

RECURSIVE pow2(_)
pow2(n) == IF n = 0 THEN 1 ELSE 2 * pow2(n - 1)

\* counts the attempts from 1
backoff_from_one(attempt) == pow2(attempt + 1) * MsPerSecond

\* `wait_time = (2 ** attempt) * 1.0`, in ms
backoff(attempt) == pow2(attempt) * MsPerSecond

\* `variables = variables or {}`
or_empty(v) == IF VarsTruthy(v) THEN v ELSE Dict(<<>>)

max_attempts_plus_one(cl, retry_on_error) ==
  IF retry_on_error THEN cl.max_retries + 1 ELSE 1

\* `max_attempts = self.max_retries if retry_on_error else 1`
max_attempts(cl, retry_on_error) == IF retry_on_error THEN cl.max_retries ELSE 1

ClientBump(cl, field) == [cl EXCEPT !.stats[field] = @ + 1]

on_exception_counts_failed(cl) ==
  ClientBump(ClientBump(cl, "retry_count"), "failed_queries")

on_cache_hit_counts_miss(cl) == ClientBump(cl, "cache_misses")

\* `if cached_result is not None`: `self.stats['cache_hits'] += 1`
on_cache_hit(cl) == ClientBump(cl, "cache_hits")

\* `except Exception`: `self.stats['retry_count'] += 1`
on_exception(cl) == ClientBump(cl, "retry_count")

\* after the loop: `self.stats['failed_queries'] += 1`
on_exhausted(cl) == ClientBump(cl, "failed_queries")

----------------------------------------------------------------------------
(* Specification SpecClient: one sequential caller of GraphClient.query *)

RatesCfg == { Rate(0, 1), Rate(5, 1), Rate(1, 2) }
ClientTtlMinutesCfg == {0, 1}
IdleSteps == {MsPerSecond}
ClientQueries == { <<"a">>, <<"b">> }
ClientVariableArgs == { NoneVars, Dict(<<>>) }

InitClient ==
  /\ now = StartTime
  /\ files = EmptyDir
  /\ \E ce \in BOOLEAN, r \in RatesCfg, mr \in 0..MaxRetriesCfg :
       /\ client = GraphClient_init(ce, r, mr)
       /\ \E m \in (IF ce THEN ClientTtlMinutesCfg ELSE {0}) :
            cache = QueryCache_init(m, DefaultMaxCacheSizeMb)
  /\ pc = "idle"
  /\ call = NoCall
  /\ op = NoOp
  /\ hist = NoHist
  /\ ncalls = 0
  /\ mx = NoMerge
  /\ hx = NoHybrid
  /\ kx = NoKey
  /\ bx = NoWrap
  /\ NoOtherCall

\* the caller does something else for a while
Idle ==
  /\ pc = "idle"
  /\ ncalls < MaxCalls
  /\ \E d \in IdleSteps : now' = now + d
  /\ ncalls' = ncalls + 1
  /\ op' = Op("tick", <<>>, None, "")
  /\ UNCHANGED <<files, cache, client, pc, call, hist, mx, hx, kx, bx, restVars>>

\* GraphClient.query(q, v, use_cache, retry_on_error) up to the retry loop:
\* count the query, look in the cache.  c is the QueryCache object as the
\* caller of query has left it.
QueryBegin(c, q, v, use_cache, retry_on_error, fault) ==
       LET variables == or_empty(v)
           key == get_cache_key(q, variables)
           cl1 == ClientBump(client, "total_queries")
           cached == client.cache_enabled /\ use_cache
           g == IF cached THEN QueryCache_get(c, files, q, variables, now, fault)
                ELSE [cache |-> c, files |-> files, ret |-> None]
           n == max_attempts(client, retry_on_error)
           h0 == [hist EXCEPT !.attempts = 0, !.outcomes = <<>>, !.sleeps = <<>>,
                              !.response = NoResp, !.stats0 = client.stats]
       IN  /\ cache' = g.cache
           /\ files' = g.files
           /\ hist' = h0
           /\ call' = [query |-> q, variables |-> variables, use_cache |-> use_cache,
                       retry_on_error |-> retry_on_error, max_attempts |-> n,
                       attempt |-> 0]
           /\ IF cached /\ g.ret # None
                THEN \* cache hit
                     /\ client' = on_cache_hit(cl1)
                     /\ op' = Op("query", key, g.ret, "")
                     /\ pc' = "idle"
              ELSE LET cl2 == IF cached THEN ClientBump(cl1, "cache_misses") ELSE cl1
                   IN  IF n > 0
                         THEN /\ client' = cl2
                              /\ op' = Op("query_start", key, None, "")
                              /\ pc' = "loop"
                       ELSE \* range(max_attempts) is empty
                            /\ client' = on_exhausted(cl2)
                            /\ op' = Op("query", key, None, "GraphClientError")
                            /\ pc' = "idle"

\* a direct call of GraphClient.query
QueryStart ==
  /\ pc = "idle"
  /\ ncalls < MaxCalls
  /\ ncalls' = ncalls + 1
  /\ \E q \in ClientQueries, v \in ClientVariableArgs, use_cache \in BOOLEAN,
        retry_on_error \in BOOLEAN, fault \in GetFaults :
       QueryBegin(cache, q, v, use_cache, retry_on_error, fault)
  /\ UNCHANGED <<now, mx, hx, kx, bx, restVars>>

\* one iteration of the retry loop: rate limit, request, then return, raise
\* or back off
QueryAttempt ==
  /\ pc = "loop"
  /\ call.attempt < call.max_attempts
  /\ \E o \in Outcomes, fault \in SetFaults :
     \E d \in RequestTimes(o) :
       LET key == get_cache_key(call.query, call.variables)
           t1 == now + rate_limit_wait(client, now)      \* the sleep is over
           cl1 == rate_limit_mark(client, t1)
           t2 == t1 + d                                   \* the request is over
           x == execute_request(o)
           h1 == [hist EXCEPT !.prev_request = hist.last_request,
                              !.last_request = t1,
                              !.attempts = @ + 1,
                              !.outcomes = Append(@, Label(o)),
                              !.response = o.body]
           last == ~(call.attempt < call.max_attempts - 1)
       IN  IF x.raised = ""
             THEN \* success: cache and return
                  /\ IF client.cache_enabled /\ call.use_cache /\ Truthy(x.val)
                       THEN \E s \in QueryCache_set(cache, files, call.query, x.val,
                                                    call.variables, t2, fault) :
                              cache' = s.cache /\ files' = s.files
                       ELSE UNCHANGED <<cache, files>>
                  /\ client' = cl1
                  /\ now' = t2
                  /\ hist' = h1
                  /\ op' = Op("query", key, Some(x.val), "")
                  /\ pc' = "idle"
                  /\ UNCHANGED call
           ELSE IF x.raised = "RateLimitError"
             THEN /\ client' = cl1
                  /\ now' = t2
                  /\ hist' = h1
                  /\ op' = Op("query", key, None, "RateLimitError")
                  /\ pc' = "idle"
                  /\ UNCHANGED <<cache, files, call>>
           ELSE IF ~last
             THEN \* retry after the backoff sleep
                  /\ client' = on_exception(cl1)
                  /\ now' = t2 + backoff(call.attempt)
                  /\ hist' = [h1 EXCEPT !.sleeps = Append(@, backoff(call.attempt))]
                  /\ call' = [call EXCEPT !.attempt = @ + 1]
                  /\ op' = Op("query_retry", key, None, "")
                  /\ UNCHANGED <<cache, files, pc>>
           ELSE \* all retries failed
                  /\ client' = on_exhausted(on_exception(cl1))
                  /\ now' = t2
                  /\ hist' = h1
                  /\ op' = Op("query", key, None, "GraphClientError")
                  /\ pc' = "idle"
                  /\ UNCHANGED <<cache, files, call>>
  /\ UNCHANGED <<ncalls, mx, hx, kx, bx, restVars>>

NextClient == Idle \/ QueryStart \/ QueryAttempt

SpecClient == InitClient /\ [][NextClient]_vars

----------------------------------------------------------------------------
(* Properties of the cache store and of GraphClient.query *)

Last(s) == s[Len(s)]

\* C1: QueryCache.get on a stored entry returns the payload last written for
\* the key if and only if now - write time <= ttl; when the age exceeds the
\* ttl it returns None and removes the entry, which no longer counts in
\* entry_count.  (Lookups whose file read raises are the subject of the
\* failure semantics, not of this property.)
C1_GetFreshIffWithinTtl ==
  [][ (op'.name = "get" /\ files[op'.key].exists) =>
        LET f == files[op'.key]
            age == now - f.mtime
        IN  /\ (op'.ret = Some(f.payload)) <=> (age <= cache.ttl)
            /\ (age > cache.ttl) =>
                 /\ op'.ret = None
                 /\ ~files'[op'.key].exists
                 /\ entry_count(files') = entry_count(files) - 1 ]_vars

\* a lookup has found an entry expired after an earlier lookup hit
C1_Witness ==
  /\ op.name = "get" /\ op.ret = None /\ ~files[op.key].exists
  /\ cache.stats.expired >= 1 /\ cache.stats.hits >= 1

\* C2: with a positive rate limit, two consecutive outbound requests of the
\* sequential caller start at least min_request_interval apart.
C2_RequestSpacing ==
  (client.min_request_interval > 0 /\ hist.prev_request >= 0) =>
     hist.last_request - hist.prev_request >= client.min_request_interval

\* the limiter slept: the second request starts exactly one interval later
C2_Witness ==
  /\ client.min_request_interval > 0 /\ hist.prev_request >= 0
  /\ hist.last_request - hist.prev_request = client.min_request_interval

AllFail(s) == \A i \in 1..Len(s) : s[i] = "fail"

\* C3: a call with retry_on_error whose request fails k < max_retries times
\* and then succeeds returns the successful response; retry_count has grown by
\* k and failed_queries is unchanged.
C3_RetryThenSuccess ==
  ( /\ pc = "idle" /\ op.name = "query" /\ call.retry_on_error
    /\ hist.outcomes # <<>> /\ Last(hist.outcomes) = "ok"
    /\ AllFail(SubSeq(hist.outcomes, 1, Len(hist.outcomes) - 1))
    /\ Len(hist.outcomes) - 1 < client.max_retries )
  => /\ op.ret = Some(hist.response) /\ op.raised = ""
     /\ client.stats.retry_count = hist.stats0.retry_count + Len(hist.outcomes) - 1
     /\ client.stats.failed_queries = hist.stats0.failed_queries

\* a call has succeeded after at least one failed attempt
C3_Witness ==
  /\ pc = "idle" /\ op.name = "query" /\ call.retry_on_error
  /\ Len(hist.outcomes) >= 2 /\ Last(hist.outcomes) = "ok"
  /\ op.ret = Some(hist.response)

\* C4: when every attempt of a call fails with a failure other than 429, the
\* call makes exactly max_retries attempts (one without retry_on_error), raises
\* GraphClientError and failed_queries grows by exactly one.
C4_ExhaustedRetries ==
  ( /\ pc = "idle" /\ op.name = "query" /\ op.ret = None
    /\ AllFail(hist.outcomes) )
  => /\ hist.attempts = (IF call.retry_on_error THEN client.max_retries ELSE 1)
     /\ Len(hist.outcomes) = hist.attempts
     /\ op.raised = "GraphClientError"
     /\ client.stats.failed_queries = hist.stats0.failed_queries + 1

\* a call has given up after two failed attempts
C4_Witness ==
  /\ pc = "idle" /\ op.name = "query" /\ op.raised = "GraphClientError"
  /\ hist.attempts = 2 /\ AllFail(hist.outcomes)
  /\ client.stats.failed_queries = hist.stats0.failed_queries + 1

\* C5: an attempt answered with HTTP 429 ends the call at once with
\* RateLimitError: it is the last attempt of the call and no backoff sleep
\* follows it, whatever the attempt number.
C5_RateLimitNotRetried ==
  \A i \in 1..Len(hist.outcomes) :
     hist.outcomes[i] = "429" =>
       /\ i = Len(hist.outcomes)
       /\ pc = "idle"
       /\ Len(hist.sleeps) = i - 1
       /\ op.name = "query" => (op.raised = "RateLimitError" /\ now = hist.last_request)

\* a 429 has ended a call on its second attempt
C5_Witness ==
  /\ pc = "idle" /\ op.name = "query" /\ op.raised = "RateLimitError"
  /\ Len(hist.outcomes) = 2 /\ hist.outcomes[2] = "429"

----------------------------------------------------------------------------
(* TransfersAnalytics._merge_transfers *)

\* A transfer dict.  Records built from the subgraph carry no 'log_index'
\* key; records built from a log carry the log's index.
Transfer(tx, hasIdx, idx, blk) ==
  [tx_hash |-> tx, has_log_index |-> hasIdx, log_index |-> idx, block_number |-> blk]

TxHashes == { <<"a">>, <<"b">> }
BlockNumbers == {1, 2}
Transfers ==
  { Transfer(tx, FALSE, 0, b) : tx \in TxHashes, b \in BlockNumbers }
  \cup { Transfer(tx, TRUE, i, b) : tx \in TxHashes, i \in {0, 1}, b \in BlockNumbers }

\* `transfer.get('log_index', 0)`
log_index_or_0(t) == IF t.has_log_index THEN t.log_index ELSE 0

DigitChar(d) ==
  CASE d = 0 -> "0" [] d = 1 -> "1" [] d = 2 -> "2" [] d = 3 -> "3" [] d = 4 -> "4"
    [] d = 5 -> "5" [] d = 6 -> "6" [] d = 7 -> "7" [] d = 8 -> "8" [] OTHER -> "9"

\* str(n) of a non-negative integer
RECURSIVE str(_)
str(n) == IF n < 10 THEN <<DigitChar(n)>> ELSE str(n \div 10) \o <<DigitChar(n % 10)>>

\* dedups on the transaction alone
merge_key_tx_only(t) == t.tx_hash

\* `key = f"{transfer['tx_hash']}_{transfer.get('log_index', 0)}"`
merge_key(t) == t.tx_hash \o <<"_">> \o str(log_index_or_0(t))

\* the loop over `historical + recent` with the `seen` set
RECURSIVE dedup(_, _, _)
dedup(list, seen, merged) ==
  IF list = <<>> THEN merged
  ELSE LET transfer == Head(list)
           key == merge_key(transfer)
       IN  IF key \notin seen
             THEN dedup(Tail(list), seen \cup {key}, Append(merged, transfer))
           ELSE dedup(Tail(list), seen, merged)

\* `key=lambda x: (x['block_number'], x.get('log_index', 0))`
sort_key(t) == <<t.block_number, log_index_or_0(t)>>

\* comparison of two key tuples
tuple_less(a, b) == a[1] < b[1] \/ (a[1] = b[1] /\ a[2] < b[2])

\* puts x in front of the elements whose key equals its own
RECURSIVE insert_before_equal(_, _)
insert_before_equal(x, s) ==
  IF s = <<>> THEN <<x>>
  ELSE IF ~tuple_less(sort_key(Head(s)), sort_key(x)) THEN <<x>> \o s
  ELSE <<Head(s)>> \o insert_before_equal(x, Tail(s))

\* list.sort is stable: an element goes behind the elements already placed
\* whose key is not greater than its own
RECURSIVE insert_stable(_, _)
insert_stable(x, s) ==
  IF s = <<>> THEN <<x>>
  ELSE IF tuple_less(sort_key(x), sort_key(Head(s))) THEN <<x>> \o s
  ELSE <<Head(s)>> \o insert_stable(x, Tail(s))

RECURSIVE list_sort(_)
list_sort(list) ==
  IF list = <<>> THEN <<>>
  ELSE insert_stable(list[Len(list)], list_sort(SubSeq(list, 1, Len(list) - 1)))

merge_transfers(historical, recent) == list_sort(dedup(historical \o recent, {}, <<>>))

----------------------------------------------------------------------------
(* Specification SpecMerge: _merge_transfers applied to bounded lists *)

InitMerge ==
  /\ now = StartTime
  /\ files = EmptyDir
  /\ cache = QueryCache_init(0, DefaultMaxCacheSizeMb)
  /\ client = NoClient
  /\ pc = "idle"
  /\ call = NoCall
  /\ op = NoOp
  /\ hist = NoHist
  /\ ncalls = 0
  /\ hx = NoHybrid
  /\ kx = NoKey
  /\ bx = NoWrap
  /\ NoOtherCall
  /\ \E n \in 0..MaxTransfers :
     \E all \in [1..n -> Transfers], k \in 0..n :
        mx = [pc |-> "args", historical |-> SubSeq(all, 1, k),
              recent |-> SubSeq(all, k + 1, n), merged |-> <<>>]

MergeCall ==
  /\ mx.pc = "args"
  /\ mx' = [mx EXCEPT !.pc = "done",
                      !.merged = merge_transfers(mx.historical, mx.recent)]
  /\ UNCHANGED <<clientVars, hx, kx, bx, restVars>>

NextMerge == MergeCall

SpecMerge == InitMerge /\ [][NextMerge]_vars

\* the key of the claim: (tx_hash, log_index or 0 when absent)
TransferKey(t) == <<t.tx_hash, log_index_or_0(t)>>

\* index of the first element of list whose key is k
FirstIndex(list, k) ==
  CHOOSE i \in 1..Len(list) :
     /\ TransferKey(list[i]) = k
     /\ \A j \in 1..(i - 1) : TransferKey(list[j]) # k

\* C6: the merged list holds no two elements with the same key
\* (tx_hash, log_index or 0), holds every key of historical and recent exactly
\* once, and the element kept for a key is its first occurrence in historical
\* followed by recent.
C6_MergeDedup ==
  mx.pc = "done" =>
    LET input == mx.historical \o mx.recent
        m == mx.merged
    IN  /\ \A i, j \in 1..Len(m) : TransferKey(m[i]) = TransferKey(m[j]) => i = j
        /\ \A i \in 1..Len(input) :
             \E j \in 1..Len(m) : TransferKey(m[j]) = TransferKey(input[i])
        /\ \A j \in 1..Len(m) :
             /\ \E i \in 1..Len(input) : TransferKey(input[i]) = TransferKey(m[j])
             /\ m[j] = input[FirstIndex(input, TransferKey(m[j]))]

\* a duplicate inside recent and one across the two lists have been dropped,
\* two transfers of one transaction have both been kept
C6_Witness ==
  /\ mx.pc = "done"
  /\ Len(mx.merged) = 2 /\ Len(mx.historical) = 1 /\ Len(mx.recent) = 2
  /\ mx.merged[1].tx_hash = mx.merged[2].tx_hash
  /\ mx.historical[1] # mx.recent[1]
  /\ TransferKey(mx.historical[1]) = TransferKey(mx.recent[1])

\* C7: the merged list is non-decreasing by (block_number, log_index or 0),
\* and elements with equal sort keys keep the order they have in historical
\* followed by recent.
C7_MergeSortedStable ==
  mx.pc = "done" =>
    LET input == mx.historical \o mx.recent
        m == mx.merged
    IN  \A i, j \in 1..Len(m) :
          i < j =>
            /\ ~tuple_less(<<m[j].block_number, log_index_or_0(m[j])>>,
                           <<m[i].block_number, log_index_or_0(m[i])>>)
            /\ ( /\ m[i].block_number = m[j].block_number
                 /\ log_index_or_0(m[i]) = log_index_or_0(m[j]) )
               => FirstIndex(input, TransferKey(m[i])) < FirstIndex(input, TransferKey(m[j]))

\* the sort has moved an element, and two elements with equal sort keys
\* have kept their input order
C7_Witness ==
  /\ mx.pc = "done"
  /\ Len(mx.merged) = 3
  /\ mx.merged # mx.historical \o mx.recent
  /\ \E i \in 1..2 : sort_key(mx.merged[i]) = sort_key(mx.merged[i + 1])

----------------------------------------------------------------------------
(* TransfersAnalytics.get_transfers_hybrid *)

\* `rpc_cutoff = current_block - 1000`, `from_block = max(0, to_block - 1000)`
RecentWindow == 1000

Max(a, b) == IF a >= b THEN a ELSE b
Min(a, b) == IF a <= b THEN a ELSE b

\* a call of _get_transfers_rpc(token, wallet, from_block, to_block); the
\* filter it sends has 'toBlock': to_block or 'latest'
RpcQuery(from_block, to_block) ==
  [source |-> "rpc", from_block |-> from_block, to_block |-> to_block,
   to_latest |-> (to_block = 0)]

\* a call of _get_transfers_subgraph(token, wallet, from_block, to_block):
\* blockNumber_gte / blockNumber_lte
SubgraphQuery(from_block, to_block) ==
  [source |-> "subgraph", from_block |-> from_block, to_block |-> to_block,
   to_latest |-> FALSE]

\* `if to_block is None: to_block = current_block`
resolve_to(to_arg, current_block) == IF to_arg.some THEN to_arg.n ELSE current_block

\* `if from_block is None: from_block = max(0, to_block - 1000)`
resolve_from(from_arg, to_block) ==
  IF from_arg.some THEN from_arg.n ELSE Max(0, to_block - RecentWindow)

select_plan_strict(block_range, max_blocks, use_subgraph, has_client) ==
  IF block_range < max_blocks THEN "rpc"
  ELSE IF use_subgraph /\ has_client THEN "hybrid"
  ELSE "chunked"

\* the if / elif / else on block_range
select_plan(block_range, max_blocks, use_subgraph, has_client) ==
  IF block_range <= max_blocks THEN "rpc"
  ELSE IF use_subgraph /\ has_client THEN "hybrid"
  ELSE "chunked"

\* the hybrid branch: the historical call, then the recent call
hybrid_queries(from_block, to_block, rpc_cutoff) ==
  (IF from_block < rpc_cutoff THEN <<SubgraphQuery(from_block, rpc_cutoff)>> ELSE <<>>)
  \o (IF to_block > rpc_cutoff THEN <<RpcQuery(rpc_cutoff, to_block)>> ELSE <<>>)

\* the blocks that hold a transfer of the token
TokenBlocks == 0..(MaxBlock + 1)

\* the blocks of the transfers a source returns when it answers: every
\* transfer of the token in the range it was asked for, 'latest' being the
\* chain head
source_blocks(q, current_block) ==
  { b \in TokenBlocks :
      /\ b <= current_block
      /\ q.from_block <= b
      /\ q.to_latest \/ b <= q.to_block }

\* what _get_transfers_rpc / _get_transfers_subgraph hand back: the transfers
\* found, or [] when the call failed (`except Exception: return []`)
fetched_blocks(q, ok, current_block) == IF ok THEN source_blocks(q, current_block) ELSE {}

\* the sources whose call failed
failed_sources(qs, oks) == { qs[i].source : i \in { j \in 1..Len(qs) : ~oks[j] } }

\* leaves a block out between two windows
next_from_skips_block(current_to) == current_to + 2

\* starts the next window on the last block of this one
next_from_same_block(current_to) == current_to

\* `current_from = current_to + 1`
next_from(current_to) == current_to + 1

----------------------------------------------------------------------------
(* Specification SpecHybrid: one get_transfers_hybrid request *)

\* chain heads: a short chain and one longer than the recent window
HeadBlocks == {MaxBlock - 1, RecentWindow + 2}
BlockArgs == {NoneInt} \cup {Int_(n) : n \in 0..MaxBlock}
\* an omitted to_block is the chain head, which is explored on the short chain
ToArgs(current_block) ==
  {Int_(n) : n \in 0..MaxBlock} \cup (IF current_block <= MaxBlock THEN {NoneInt} ELSE {})

InitHybrid ==
  /\ now = StartTime
  /\ files = EmptyDir
  /\ cache = QueryCache_init(0, DefaultMaxCacheSizeMb)
  /\ client = NoClient
  /\ pc = "idle"
  /\ call = NoCall
  /\ op = NoOp
  /\ hist = NoHist
  /\ ncalls = 0
  /\ mx = NoMerge
  /\ kx = NoKey
  /\ bx = NoWrap
  /\ NoOtherCall
  /\ \E cb \in HeadBlocks, fa \in BlockArgs, mb \in 0..MaxMaxBlocks,
        us \in BOOLEAN, hc \in BOOLEAN :
     \E ta \in ToArgs(cb) :
        hx = [NoHybrid EXCEPT !.pc = "args", !.current_block = cb, !.from_arg = fa,
                              !.to_arg = ta, !.max_blocks = mb, !.use_subgraph = us,
                              !.has_client = hc]

\* get_transfers_hybrid up to the first chunk: read the chain head, resolve
\* the defaults, choose the plan; the rpc and hybrid plans run to the end
HybridCall ==
  /\ hx.pc = "args"
  /\ \E head_ok \in BOOLEAN :
       IF ~head_ok
         THEN \* `self.w3.eth.block_number` raises: `return []`
              hx' = [hx EXCEPT !.pc = "done", !.raised = TRUE, !.failed = {"head"},
                               !.ret_kind = "list", !.ret_blocks = {}]
       ELSE LET to_block == resolve_to(hx.to_arg, hx.current_block)
                from_block == resolve_from(hx.from_arg, to_block)
                block_range == to_block - from_block
                plan == select_plan(block_range, hx.max_blocks, hx.use_subgraph, hx.has_client)
                rpc_cutoff == hx.current_block - RecentWindow
                h1 == [hx EXCEPT !.from_block = from_block, !.to_block = to_block,
                                 !.plan = plan]
                qs == IF plan = "rpc" THEN <<RpcQuery(from_block, to_block)>>
                      ELSE IF plan = "hybrid"
                        THEN hybrid_queries(from_block, to_block, rpc_cutoff)
                      ELSE <<>>
            IN  IF plan \in {"rpc", "hybrid"}
                  THEN \* each source call answers or fails; the lists are
                       \* merged (hybrid) or returned as they are (rpc)
                       \E oks \in [1..Len(qs) -> BOOLEAN] :
                          hx' = [h1 EXCEPT
                                   !.pc = "done",
                                   !.rpc_cutoff = IF plan = "hybrid" THEN rpc_cutoff ELSE @,
                                   !.queries = qs,
                                   !.failed = failed_sources(qs, oks),
                                   !.ret_kind = "list",
                                   !.ret_blocks =
                                      UNION { fetched_blocks(qs[i], oks[i], hx.current_block) :
                                              i \in 1..Len(qs) }]
                ELSE hx' = [h1 EXCEPT !.pc = "chunk", !.current_from = from_block]
  /\ UNCHANGED <<clientVars, mx, kx, bx, restVars>>

\* one iteration of the loop of _get_transfers_rpc_chunked
ChunkStep ==
  /\ hx.pc = "chunk"
  /\ hx.current_from < hx.to_block
  /\ LET current_to == Min(hx.current_from + hx.max_blocks, hx.to_block)
         q == RpcQuery(hx.current_from, current_to)
     IN  \E ok \in BOOLEAN :
            hx' = [hx EXCEPT !.queries = Append(@, q),
                             !.failed = IF ok THEN @ ELSE @ \cup {"rpc"},
                             !.ret_blocks = @ \cup fetched_blocks(q, ok, hx.current_block),
                             !.current_from = next_from(current_to)]
  /\ UNCHANGED <<clientVars, mx, kx, bx, restVars>>

\* the loop is over: `return all_transfers`
ChunkReturn ==
  /\ hx.pc = "chunk"
  /\ ~(hx.current_from < hx.to_block)
  /\ hx' = [hx EXCEPT !.pc = "done", !.ret_kind = "list"]
  /\ UNCHANGED <<clientVars, mx, kx, bx, restVars>>

NextHybrid == HybridCall \/ ChunkStep \/ ChunkReturn

SpecHybrid == InitHybrid /\ [][NextHybrid]_vars

\* a request whose chain head was read
Planned == hx.pc \in {"chunk", "done"} /\ ~hx.raised

IsRpc(q) == q.source = "rpc"
IsSubgraph(q) == q.source = "subgraph"

\* C8: a request runs exactly one plan: one log query over
\* [from_block, to_block] when to_block - from_block <= max_blocks; else the
\* split at rpc_cutoff = current_block - 1000 when use_subgraph is set and a
\* subgraph client is present; else chunked log queries only.
C8_PlanSelection ==
  Planned =>
    LET span == hx.to_block - hx.from_block
        qs == hx.queries
    IN  /\ hx.plan \in {"rpc", "hybrid", "chunked"}
        /\ span <= hx.max_blocks =>
             /\ hx.plan = "rpc" /\ hx.pc = "done"
             /\ Len(qs) = 1 /\ IsRpc(qs[1])
             /\ qs[1].from_block = hx.from_block /\ qs[1].to_block = hx.to_block
        /\ (span > hx.max_blocks /\ hx.use_subgraph /\ hx.has_client) =>
             /\ hx.plan = "hybrid" /\ hx.pc = "done"
             /\ hx.rpc_cutoff = hx.current_block - 1000
             /\ \A i \in 1..Len(qs) :
                  /\ IsSubgraph(qs[i]) => qs[i].to_block = hx.rpc_cutoff
                  /\ IsRpc(qs[i]) => qs[i].from_block = hx.rpc_cutoff
             /\ Cardinality({i \in 1..Len(qs) : IsSubgraph(qs[i])}) <= 1
             /\ Cardinality({i \in 1..Len(qs) : IsRpc(qs[i])}) <= 1
        /\ (span > hx.max_blocks /\ ~(hx.use_subgraph /\ hx.has_client)) =>
             /\ hx.plan = "chunked"
             /\ \A i \in 1..Len(qs) : IsRpc(qs[i])
             /\ hx.pc = "done" => Len(qs) >= 1

\* a request whose span is exactly max_blocks has run the single log query
C8_Witness ==
  /\ Planned /\ hx.pc = "done" /\ hx.plan = "rpc"
  /\ hx.max_blocks > 0 /\ hx.to_block - hx.from_block = hx.max_blocks
  /\ Len(hx.queries) = 1

CeilDiv(a, b) == (a + b - 1) \div b

\* C9 as stated: the chunked plan issues ceil((to_block - from_block) /
\* max_blocks) log queries.
C9_ChunkCountAsStated ==
  (Planned /\ hx.pc = "done" /\ hx.plan = "chunked" /\ hx.max_blocks >= 1) =>
     Len(hx.queries) = CeilDiv(hx.to_block - hx.from_block, hx.max_blocks)

\* C9 amended: a window spans max_blocks, that is max_blocks + 1 blocks, and
\* the next one starts one block later, so the chunked plan issues
\* ceil((to_block - from_block) / (max_blocks + 1)) log queries.
C9_ChunkCount ==
  (Planned /\ hx.pc = "done" /\ hx.plan = "chunked") =>
     Len(hx.queries) = CeilDiv(hx.to_block - hx.from_block, hx.max_blocks + 1)

\* a chunked request has finished with two full windows where the stated
\* count would be three
C9_Witness ==
  /\ Planned /\ hx.pc = "done" /\ hx.plan = "chunked"
  /\ hx.max_blocks = 1 /\ hx.to_block - hx.from_block = 3
  /\ Len(hx.queries) = 2

\* the blocks a query asks its source for
InQuery(b, q) == q.from_block <= b /\ b <= q.to_block

\* C10 as stated: in the hybrid plan the subgraph is asked for
\* [from_block, rpc_cutoff] and the log query for (rpc_cutoff, to_block]: no
\* block is requested from both sources.
C10_HybridRangesDisjoint ==
  (Planned /\ hx.plan = "hybrid") =>
     \A i, j \in 1..Len(hx.queries) :
        (IsSubgraph(hx.queries[i]) /\ IsRpc(hx.queries[j])) =>
           /\ hx.queries[i].from_block = hx.from_block
           /\ hx.queries[i].to_block = hx.rpc_cutoff
           /\ hx.queries[j].from_block = hx.rpc_cutoff + 1
           /\ hx.queries[j].to_block = hx.to_block
           /\ \A b \in hx.from_block..hx.to_block :
                ~(InQuery(b, hx.queries[i]) /\ InQuery(b, hx.queries[j]))

----------------------------------------------------------------------------
(* Size budget of the cache directory (specification SpecCache) *)

\* mtime of entry k once a set has written entry `written` at time t
MtimeAfterWrite(fs, written, t, k) == IF k = written THEN t ELSE fs[k].mtime

\* C11: after every QueryCache.set that wrote its file the directory holds at
\* most max_cache_size_bytes, and the enforcement pass removes oldest first:
\* no entry it removed is strictly younger than an entry it kept
C11_SetEnforcesBudget ==
  [][ op'.name = "set" =>
        /\ total_size(files') <= cache'.max_cache_size_bytes
        /\ LET removed == { k \in CacheKeys :
                              (k = op'.key \/ files[k].exists) /\ ~files'[k].exists }
           IN  \A k \in removed : \A j \in CacheKeys :
                 files'[j].exists =>
                   MtimeAfterWrite(files, op'.key, now, j)
                     >= MtimeAfterWrite(files, op'.key, now, k) ]_vars

\* a set has just pushed the directory over its budget: an older entry was
\* removed and the entry just written was kept
C11_Witness ==
  /\ op.name = "set"
  /\ kx.evicted # {}
  /\ op.key \notin kx.evicted
  /\ files[op.key].exists
  /\ files[op.key].mtime > StartTime
  /\ cache.max_cache_size_bytes > 0

----------------------------------------------------------------------------
(* Specification SpecKey: one QueryCache.set followed by one QueryCache.get,
   on a fresh directory, with independently chosen arguments *)

InitKey ==
  /\ now = StartTime
  /\ files = EmptyDir
  /\ \E m \in TtlMinutesCfg : cache = QueryCache_init(m, DefaultMaxCacheSizeMb)
  /\ client = NoClient
  /\ pc = "idle"
  /\ call = NoCall
  /\ op = NoOp
  /\ hist = NoHist
  /\ ncalls = 0
  /\ mx = NoMerge
  /\ hx = NoHybrid
  /\ bx = NoWrap
  /\ NoOtherCall
  /\ \E q1 \in Queries, v1 \in VariableArgs, q2 \in Queries, v2 \in VariableArgs,
        p \in StoredPayloads :
       kx = [NoKey EXCEPT !.pc = "args", !.set_query = q1, !.set_variables = v1,
                          !.get_query = q2, !.get_variables = v2, !.payload = p]

\* cache.set(set_query, payload, set_variables)
KeySet ==
  /\ kx.pc = "args"
  /\ \E r \in QueryCache_set(cache, files, kx.set_query, kx.payload,
                              kx.set_variables, now, "none") :
       /\ cache' = r.cache
       /\ files' = r.files
  /\ op' = Op("set", get_cache_key(kx.set_query, kx.set_variables), None, "")
  /\ kx' = [kx EXCEPT !.pc = "set"]
  /\ ncalls' = ncalls + 1
  /\ UNCHANGED <<now, client, pc, call, hist, mx, hx, bx, restVars>>

\* cache.get(get_query, get_variables)
KeyGet ==
  /\ kx.pc = "set"
  /\ LET r == QueryCache_get(cache, files, kx.get_query, kx.get_variables, now, "none")
     IN  /\ cache' = r.cache
         /\ files' = r.files
         /\ op' = Op("get", get_cache_key(kx.get_query, kx.get_variables), r.ret, "")
         /\ kx' = [kx EXCEPT !.pc = "got", !.ret = r.ret]
  /\ ncalls' = ncalls + 1
  /\ UNCHANGED <<now, client, pc, call, hist, mx, hx, bx, restVars>>

NextKey == KeySet \/ KeyGet

SpecKey == InitKey /\ [][NextKey]_vars

\* the set of (name, value) pairs of a variables argument; None has none
PairSet(v) == IF v.is_none THEN {} ELSE { v.items[i] : i \in DOMAIN v.items }

SameRequest ==
  /\ strip(kx.set_query) = strip(kx.get_query)
  /\ PairSet(kx.set_variables) = PairSet(kx.get_variables)

\* C12: the cache key depends only on the stripped query text and on the set
\* of variable pairs: a get whose query strips to the same text as the set's
\* and whose variables hold the same pairs (in any insertion order, None and
\* {} being the same) reads the entry the set wrote
C12_KeyOfStrippedQueryAndPairs ==
  (kx.pc = "got" /\ SameRequest) =>
     /\ kx.ret = Some(kx.payload)
     /\ cache.stats.hits = 1
     /\ entry_count(files) = 1

\* a get found the entry although its query text carries other whitespace
\* and its variables were inserted in the other order
C12_Witness ==
  /\ kx.pc = "got"
  /\ kx.ret = Some(kx.payload)
  /\ kx.set_query # kx.get_query
  /\ kx.set_variables # kx.get_variables
  /\ Len(kx.set_variables.items) = 2
  /\ PairSet(kx.set_variables) = PairSet(kx.get_variables)

\* a get found the entry written with variables = None when asked with {}
C12_WitnessNoneEmpty ==
  /\ kx.pc = "got"
  /\ kx.ret = Some(kx.payload)
  /\ kx.set_variables = NoneVars
  /\ kx.get_variables = Dict(<<>>)

----------------------------------------------------------------------------
(* Tallies of an expired lookup (specification SpecCache) *)

\* a get that read no fault and whose entry was in the directory, older than
\* the ttl
ExpiredLookup ==
  /\ op'.name = "get"
  /\ files[op'.key].exists
  /\ now - files[op'.key].mtime > cache.ttl

\* C13: a get that finds an expired entry deletes it, returns nothing and
\* adds one to stats['misses'] and one to stats['expired'], leaving
\* stats['hits'] as it was
C13_ExpiredCountsAsMiss ==
  [][ ExpiredLookup =>
        /\ ~files'[op'.key].exists
        /\ op'.ret = None
        /\ cache'.stats.misses = cache.stats.misses + 1
        /\ cache'.stats.expired = cache.stats.expired + 1
        /\ cache'.stats.hits = cache.stats.hits ]_vars

----------------------------------------------------------------------------
(* GraphClient.query and its cache (specification SpecClient) *)

\* a step that begins a query call
QueryBegins == pc = "idle" /\ op'.name \in {"query", "query_start"} /\ ncalls' = ncalls + 1

\* the entry a beginning call addresses is in the directory and within its ttl
EntryFresh ==
  /\ files[op'.key].exists
  /\ now - files[op'.key].mtime <= cache.ttl

\* C14: a query call that hits the cache (caching in use, the entry there and
\* fresh, the read succeeding) returns the cached response at once: no
\* outbound request, no wait, last_request_time, retry_count and
\* failed_queries unchanged, total_queries and cache_hits one higher
C14_CacheHitFrame ==
  [][ ( /\ QueryBegins
        /\ client.cache_enabled /\ call'.use_cache
        /\ EntryFresh
        /\ cache'.stats.errors = cache.stats.errors )
      =>
      ( /\ op' = Op("query", op'.key, Some(files[op'.key].payload), "")
        /\ pc' = "idle"
        /\ now' = now
        /\ hist'.attempts = 0
        /\ hist'.last_request = hist.last_request
        /\ client'.last_request_time = client.last_request_time
        /\ client'.stats.retry_count = client.stats.retry_count
        /\ client'.stats.failed_queries = client.stats.failed_queries
        /\ client'.stats.cache_misses = client.stats.cache_misses
        /\ client'.stats.total_queries = client.stats.total_queries + 1
        /\ client'.stats.cache_hits = client.stats.cache_hits + 1 ) ]_vars

\* the second call was answered from the entry the first call had fetched
C14_Witness ==
  /\ op.name = "query"
  /\ op.ret # None
  /\ hist.attempts = 0
  /\ client.stats.cache_hits = 1
  /\ client.stats.total_queries = 2
  /\ client.last_request_time > 0
  /\ cache.stats.hits = 1

\* the last query call, made with caching in use, returned hist.response as
\* fetched from the endpoint, and the store has counted no error
LastCallFetched ==
  /\ pc = "idle"
  /\ hist.attempts >= 1
  /\ Last(hist.outcomes) = "ok"
  /\ client.cache_enabled /\ call.use_cache
  /\ cache.stats.errors = 0

\* the same query is asked again, with caching in use, within the ttl of the
\* moment the response arrived, and the store reads without error
AskedAgainWithinTtl ==
  /\ QueryBegins
  /\ op'.key = get_cache_key(call.query, call.variables)
  /\ call'.use_cache
  /\ now - hist.last_request <= cache.ttl
  /\ cache'.stats.errors = 0

AnsweredFromCache ==
  /\ op' = Op("query", op'.key, Some(hist.response), "")
  /\ hist'.attempts = 0
  /\ pc' = "idle"

\* C15 as stated: once a query made with caching in use has returned a
\* response fetched from the endpoint, the same query asked again within the
\* ttl returns that response without an outbound request
C15_FetchedThenHit ==
  [][ (LastCallFetched /\ AskedAgainWithinTtl) => AnsweredFromCache ]_vars

\* C15 amended: the same, for a fetched response that is not the empty object
C15_NonEmptyFetchedThenHit ==
  [][ (LastCallFetched /\ hist.response # RespEmpty /\ AskedAgainWithinTtl)
        => AnsweredFromCache ]_vars

\* the second of two calls was answered from the cache with the response the
\* first one fetched and stored
C15_Witness ==
  /\ op.name = "query"
  /\ op.ret # None
  /\ op.ret.val # RespEmpty
  /\ hist.attempts = 0
  /\ client.stats.cache_misses = 1
  /\ client.stats.cache_hits = 1
  /\ cache.stats.writes = 1
  /\ files[op.key] = File(op.ret.val, client.last_request_time)

\* C16: a response carrying an `errors` field is a failure of the query: the
\* call that received it last raises, no call returns such a response, and
\* no entry of the cache directory holds one
C16_ErrorsNeverReturnedNorCached ==
  /\ \A k \in CacheKeys : files[k].exists => ~files[k].payload.has_errors
  /\ (op.name = "query" /\ op.ret # None) => ~op.ret.val.has_errors
  /\ (op.name = "query" /\ hist.attempts >= 1 /\ hist.response.has_errors)
        => (op.ret = None /\ op.raised # "")

\* a call whose endpoint answered 200 with data and errors has raised, while
\* the directory holds the entry of an earlier call
C16_Witness ==
  /\ op.name = "query"
  /\ op.raised = "GraphClientError"
  /\ hist.response = RespPartial
  /\ Last(hist.outcomes) = "fail"
  /\ call.use_cache /\ client.cache_enabled
  /\ entry_count(files) = 1

\* a beginning call, with caching in use, finds its entry there and fresh and
\* yet gets nothing from the store: the read has failed
CacheReadFailed ==
  /\ QueryBegins
  /\ client.cache_enabled /\ call'.use_cache
  /\ EntryFresh
  /\ op'.ret = None

\* the retry loop ends with a well-formed, non-empty answer of the endpoint
\* while caching is in use: the call stores it
FetchedForCache ==
  /\ pc = "loop" /\ pc' = "idle"
  /\ Last(hist'.outcomes) = "ok"
  /\ hist'.response # RespEmpty
  /\ client.cache_enabled /\ call.use_cache

\* C20: a failing cache never fails the query.  A read that errors is counted
\* in the store's errors tally and taken as a miss, after which the call goes
\* to the endpoint; a write that errors is counted likewise and the call
\* still returns the endpoint's response
C20_CacheFailsOpen ==
  [][ /\ CacheReadFailed =>
           /\ cache'.stats.errors = cache.stats.errors + 1
           /\ files' = files
           /\ client'.stats.cache_misses = client.stats.cache_misses + 1
           /\ client'.stats.cache_hits = client.stats.cache_hits
           /\ call'.max_attempts > 0 => (pc' = "loop" /\ op'.raised = "")
      /\ FetchedForCache =>
           /\ op' = Op("query", op'.key, Some(hist'.response), "")
           /\ \/ /\ cache'.stats.writes = cache.stats.writes + 1
                 /\ cache'.stats.errors = cache.stats.errors
                 /\ files'[op'.key] = File(hist'.response, now')
              \/ /\ cache'.stats.errors = cache.stats.errors + 1
                 /\ cache'.stats.writes = cache.stats.writes
                 /\ files' = files ]_vars

\* the second call could not read its entry, went to the endpoint, could not
\* write the answer and returned it
C20_Witness ==
  /\ op.name = "query"
  /\ op.ret = Some(hist.response)
  /\ hist.attempts >= 1
  /\ cache.stats.errors = 2
  /\ cache.stats.writes = 1
  /\ client.stats.cache_misses = 2
  /\ client.stats.total_queries = 2

----------------------------------------------------------------------------
(* CachedGraphClient *)

MsPerMinute == SecondsPerMinute * MsPerSecond
MsPerHour == 60 * MsPerMinute

\* the cache_ttl_minutes default of CachedGraphClient.__init__
CachedDefaultTtlMinutes == 15

\* self.custom_ttls
custom_ttls ==
  [token_info |-> 24 * MsPerHour, historical |-> 6 * MsPerHour,
   current_price |-> 1 * MsPerMinute, volume |-> 5 * MsPerMinute]

QueryTypes == DOMAIN custom_ttls \cup {"default"}

\* `self.cache.ttl if self.cache else None`
read_original_ttl(cl, c) == IF cl.cache_enabled THEN Int_(c.ttl) ELSE NoneInt

\* `if self.cache and query_type in self.custom_ttls`
apply_custom_ttl(cl, c, query_type) ==
  IF cl.cache_enabled /\ query_type \in DOMAIN custom_ttls
    THEN [c EXCEPT !.ttl = custom_ttls[query_type]]
  ELSE c

\* the finally block: `if self.cache and original_ttl`; a timedelta of zero
\* length is falsy
restore_ttl(cl, c, original_ttl) ==
  IF cl.cache_enabled /\ original_ttl.some /\ original_ttl.n # 0
    THEN [c EXCEPT !.ttl = original_ttl.n]
  ELSE c

----------------------------------------------------------------------------
(* Specification SpecCustomTtl: one sequential caller of
   CachedGraphClient.query_with_custom_ttl *)

CachedTtlMinutesCfg == {0, CachedDefaultTtlMinutes}
CachedRatesCfg == { Rate(5, 1) }

InitCustomTtl ==
  /\ now = StartTime
  /\ files = EmptyDir
  /\ \E ce \in BOOLEAN, r \in CachedRatesCfg, mr \in 0..MaxRetriesCfg :
       /\ client = GraphClient_init(ce, r, mr)
       /\ \E m \in (IF ce THEN CachedTtlMinutesCfg ELSE {0}) :
            cache = QueryCache_init(m, DefaultMaxCacheSizeMb)
  /\ pc = "idle"
  /\ call = NoCall
  /\ op = NoOp
  /\ hist = NoHist
  /\ ncalls = 0
  /\ mx = NoMerge
  /\ hx = NoHybrid
  /\ kx = NoKey
  /\ bx = NoWrap
  /\ NoOtherCall

\* the caller does something else between two calls
TtlIdle == bx.pc \in {"idle", "returned"} /\ Idle

\* lines 380-386: read the ttl, put the override in its place, enter
\* self.query(query, variables); wrap is the caller's record of the call
CustomTtlBegin(q, v, query_type, fault, wrap) ==
  /\ QueryBegin(apply_custom_ttl(client, cache, query_type), q, v, TRUE, TRUE, fault)
  /\ bx' = [wrap EXCEPT !.pc = "in_query", !.kind = "custom_ttl",
                        !.ttl0 = cache.ttl,
                        !.original_ttl = read_original_ttl(client, cache),
                        !.query_type = query_type]

\* lines 387-391: the finally block, then the same return or raise
CustomTtlEnd(wrap) ==
  /\ cache' = restore_ttl(client, cache, bx.original_ttl)
  /\ bx' = [wrap EXCEPT !.pc = "returned", !.ret = op.ret, !.raised = op.raised]
  /\ op' = Op("query_with_custom_ttl", op.key, op.ret, op.raised)

\* query_with_custom_ttl up to the retry loop of self.query(query, variables)
TtlEnter ==
  /\ bx.pc \in {"idle", "returned"}
  /\ pc = "idle"
  /\ ncalls < MaxCalls
  /\ ncalls' = ncalls + 1
  /\ \E q \in ClientQueries, v \in ClientVariableArgs, query_type \in QueryTypes,
        fault \in GetFaults :
       CustomTtlBegin(q, v, query_type, fault, NoWrap)
  /\ UNCHANGED <<now, mx, hx, kx, restVars>>

\* self.query has returned or raised: the finally block, then the same
\* return or raise
TtlExit ==
  /\ bx.pc = "in_query" /\ bx.kind = "custom_ttl"
  /\ pc = "idle"
  /\ CustomTtlEnd(bx)
  /\ UNCHANGED <<now, files, client, pc, call, hist, ncalls, mx, hx, kx, restVars>>

NextCustomTtl == TtlIdle \/ TtlEnter \/ QueryAttempt \/ TtlExit

SpecCustomTtl == InitCustomTtl /\ [][NextCustomTtl]_vars

\* C17: whatever the configured default ttl (zero included) and the
\* query_type, and whether the call returned or raised, the store's ttl after
\* query_with_custom_ttl is its ttl before the call
C17_TtlRestored ==
  (bx.kind = "custom_ttl" /\ bx.pc = "returned" /\ client.cache_enabled)
     => cache.ttl = bx.ttl0

----------------------------------------------------------------------------
(* GraphClient.batch_query *)

\* an element of the returned list: a response, or {'error': str(e)}
BatchResult(val) == [is_error |-> FALSE, val |-> val, error |-> ""]
ErrorRecord(e) == [is_error |-> TRUE, val |-> NoResp, error |-> e]

batch_catches_not_rate_limit(e) == e # "RateLimitError"

\* `except Exception`: every exception class that query raises
batch_catches(e) == e \in {"GraphClientError", "RateLimitError"}

\* `results.append(result)` / `results.append({'error': str(e)})`
batch_append(results, o) ==
  IF o.raised = "" THEN Append(results, BatchResult(o.ret.val))
  ELSE Append(results, ErrorRecord(o.raised))

----------------------------------------------------------------------------
(* Specification SpecBatch: one sequential caller of GraphClient.batch_query *)

BatchItems == { << <<"a">>, NoneVars >>, << <<"b">>, Dict(<<>>) >> }
DelaysCfg == {0, MsPerSecond}
BatchRatesCfg == { Rate(5, 1) }

InitBatch ==
  /\ now = StartTime
  /\ files = EmptyDir
  /\ \E r \in BatchRatesCfg, mr \in 0..MaxRetriesCfg :
       client = GraphClient_init(TRUE, r, mr)
  /\ cache = QueryCache_init(1, DefaultMaxCacheSizeMb)
  /\ pc = "idle"
  /\ call = NoCall
  /\ op = NoOp
  /\ hist = NoHist
  /\ ncalls = 0
  /\ mx = NoMerge
  /\ hx = NoHybrid
  /\ kx = NoKey
  /\ bx = NoWrap
  /\ NoOtherCall

\* the caller does something else between two batches
BatchIdle == bx.pc \in {"idle", "returned"} /\ Idle

\* batch_query up to the retry loop of the first self.query; an empty list
\* of queries returns at once
BatchStart ==
  /\ bx.pc \in {"idle", "returned"}
  /\ pc = "idle"
  /\ ncalls < MaxCalls
  /\ \E n \in 0..(MaxCalls - ncalls) :
     \E queries \in [1..n -> BatchItems], use_cache \in BOOLEAN,
        delay_between \in DelaysCfg, fault \in GetFaults :
       LET b == [NoWrap EXCEPT !.kind = "batch", !.queries = queries,
                               !.use_cache = use_cache,
                               !.delay_between = delay_between,
                               !.queries0 = client.stats.total_queries]
       IN  IF n = 0
             THEN /\ bx' = [b EXCEPT !.pc = "returned"]
                  /\ op' = Op("batch_query", <<>>, None, "")
                  /\ UNCHANGED <<files, cache, client, pc, call, hist, ncalls>>
           ELSE /\ QueryBegin(cache, queries[1][1], queries[1][2], use_cache, TRUE, fault)
                /\ bx' = [b EXCEPT !.pc = "in_query", !.i = 1]
                /\ ncalls' = ncalls + 1
  /\ UNCHANGED <<now, mx, hx, kx, restVars>>

\* self.query has returned or raised: record the item, sleep delay_between
\* before the next one, return the list after the last one
BatchItemEnd ==
  /\ bx.pc = "in_query" /\ bx.kind = "batch"
  /\ pc = "idle"
  /\ IF op.raised = "" \/ batch_catches(op.raised)
       THEN LET b == [bx EXCEPT !.results = batch_append(@, op),
                                !.calls = Append(@, op)]
            IN  IF bx.i < Len(bx.queries)
                  THEN /\ bx' = [b EXCEPT !.pc = "between", !.i = @ + 1]
                       /\ now' = now + bx.delay_between
                       /\ UNCHANGED op
                ELSE /\ bx' = [b EXCEPT !.pc = "returned"]
                     /\ op' = Op("batch_query", <<>>, None, "")
                     /\ UNCHANGED now
     ELSE \* the exception leaves batch_query
          /\ bx' = [bx EXCEPT !.pc = "returned", !.raised = op.raised,
                              !.calls = Append(@, op)]
          /\ op' = Op("batch_query", <<>>, None, op.raised)
          /\ UNCHANGED now
  /\ UNCHANGED <<files, cache, client, pc, call, hist, ncalls, mx, hx, kx, restVars>>

\* the next item: self.query(query, variables, use_cache=use_cache) up to
\* its retry loop
BatchNext ==
  /\ bx.pc = "between" /\ bx.kind = "batch"
  /\ pc = "idle"
  /\ ncalls < MaxCalls
  /\ ncalls' = ncalls + 1
  /\ \E fault \in GetFaults :
       QueryBegin(cache, bx.queries[bx.i][1], bx.queries[bx.i][2], bx.use_cache,
                  TRUE, fault)
  /\ bx' = [bx EXCEPT !.pc = "in_query"]
  /\ UNCHANGED <<now, mx, hx, kx, restVars>>

NextBatch == BatchIdle \/ BatchStart \/ QueryAttempt \/ BatchItemEnd \/ BatchNext

SpecBatch == InitBatch /\ [][NextBatch]_vars

\* C18: batch_query runs its queries one at a time in input order and returns
\* a list of the same length and order: it never raises, it has made one
\* query call per item, call i for item i, and position i holds the response
\* of call i, or an error record when call i raised (a rate-limit error
\* included), the later items being executed all the same
C18_BatchOrderAndErrors ==
  (bx.kind = "batch" /\ bx.pc = "returned") =>
     /\ bx.raised = ""
     /\ Len(bx.results) = Len(bx.queries)
     /\ Len(bx.calls) = Len(bx.queries)
     /\ client.stats.total_queries = bx.queries0 + Len(bx.queries)
     /\ \A i \in 1..Len(bx.queries) :
          /\ bx.calls[i].key = get_cache_key(bx.queries[i][1], or_empty(bx.queries[i][2]))
          /\ bx.results[i] = IF bx.calls[i].raised # ""
                               THEN ErrorRecord(bx.calls[i].raised)
                               ELSE BatchResult(bx.calls[i].ret.val)

\* a batch of two has returned: the first item met a rate-limit error, the
\* second was executed and returned a response
C18_Witness ==
  /\ bx.kind = "batch" /\ bx.pc = "returned"
  /\ Len(bx.queries) = 2
  /\ bx.calls[1].raised = "RateLimitError"
  /\ bx.results[1] = ErrorRecord("RateLimitError")
  /\ bx.results[2] = BatchResult(RespD1)
  /\ bx.queries[1] # bx.queries[2]

----------------------------------------------------------------------------
(* GraphClient.health_check *)

\* test_query: a text with leading and trailing whitespace.  It is taken to
\* be a text that direct callers ask too, so that its entry can be in the
\* cache when health_check runs.
TestQuery == <<" ", "a", " ">>

health_result_not_none(o) == o.raised = ""

\* `return 'data' in result`, `except Exception: return False`
health_result(o) == o.raised = "" /\ o.ret.val.has_data

----------------------------------------------------------------------------
(* Specification SpecHealth: one sequential caller of GraphClient.query and
   GraphClient.health_check *)

HealthRatesCfg == { Rate(5, 1) }

InitHealth ==
  /\ now = StartTime
  /\ files = EmptyDir
  /\ \E ce \in BOOLEAN, r \in HealthRatesCfg, mr \in 0..MaxRetriesCfg :
       client = GraphClient_init(ce, r, mr)
  /\ cache = QueryCache_init(1, DefaultMaxCacheSizeMb)
  /\ pc = "idle"
  /\ call = NoCall
  /\ op = NoOp
  /\ hist = NoHist
  /\ ncalls = 0
  /\ mx = NoMerge
  /\ hx = NoHybrid
  /\ kx = NoKey
  /\ bx = NoWrap
  /\ NoOtherCall

\* a direct query call between two health checks
HealthDirectQuery == bx.pc \in {"idle", "returned"} /\ QueryStart

\* health_check up to the retry loop of
\* self.query(test_query, use_cache=False, retry_on_error=False)
HealthStart ==
  /\ bx.pc \in {"idle", "returned"}
  /\ pc = "idle"
  /\ ncalls < MaxCalls
  /\ ncalls' = ncalls + 1
  /\ \E fault \in GetFaults :
       QueryBegin(cache, TestQuery, NoneVars, FALSE, FALSE, fault)
  /\ bx' = [NoWrap EXCEPT !.pc = "in_query", !.kind = "health",
                          !.files0 = files, !.stats0 = cache.stats,
                          !.requests0 = hist.last_request,
                          !.queries0 = client.stats.total_queries]
  /\ UNCHANGED <<now, mx, hx, kx, restVars>>

\* self.query has returned or raised: return the boolean
HealthExit ==
  /\ bx.pc = "in_query" /\ bx.kind = "health"
  /\ pc = "idle"
  /\ bx' = [bx EXCEPT !.pc = "returned", !.healthy = health_result(op)]
  /\ op' = Op("health_check", op.key, None, "")
  /\ UNCHANGED <<now, files, cache, client, pc, call, hist, ncalls, mx, hx, kx, restVars>>

NextHealth == HealthDirectQuery \/ HealthStart \/ QueryAttempt \/ HealthExit

SpecHealth == InitHealth /\ [][NextHealth]_vars

\* C19: health_check sends exactly one request and takes no backoff sleep,
\* leaves the cache directory and every tally of the store as they were,
\* does not raise, and returns true exactly when the answer to that request
\* is well formed, without errors and with a data payload
C19_HealthCheck ==
  op.name = "health_check" =>
     /\ hist.attempts = 1
     /\ Len(hist.outcomes) = 1
     /\ hist.sleeps = <<>>
     /\ client.stats.total_queries = bx.queries0 + 1
     /\ files = bx.files0
     /\ cache.stats = bx.stats0
     /\ op.raised = "" /\ bx.raised = ""
     /\ bx.healthy <=> (hist.outcomes[1] = "ok" /\ hist.response.has_data)

\* health_check has returned true on a fresh answer of the endpoint while
\* the cache held another response under the key of the test query
C19_Witness ==
  /\ op.name = "health_check"
  /\ bx.healthy
  /\ client.cache_enabled
  /\ files[strip(TestQuery)].exists
  /\ files[strip(TestQuery)].payload # hist.response
  /\ cache.stats.hits = 0

\* health_check has returned false on an answer that is an empty object
C19_WitnessEmpty ==
  /\ op.name = "health_check"
  /\ ~bx.healthy
  /\ hist.outcomes = <<"ok">>
  /\ hist.response = RespEmpty

----------------------------------------------------------------------------
(* TransfersAnalytics.analyze_transfers *)

\* An address is its 20 bytes and the case of its hex digits: EIP-55 mixed
\* case ("checksum") or lower case.
Address(id, form) == <<id, form>>
to_checksum_address(a) == Address(a[1], "checksum")

\* the `stats` dict before the loop
ZeroAnalysis == NoAnalyze.stats

\* one iteration of `for transfer in transfers`: the if / elif on the two
\* sides of the transfer, then the count
analyze_one(stats, transfer, wallet) ==
  LET s1 == IF transfer.to = wallet
              THEN [stats EXCEPT !.received_count = @ + 1,
                                 !.total_received = @ + transfer.value,
                                 !.unique_counterparties = @ \cup {transfer.from}]
            ELSE IF transfer.from = wallet
              THEN [stats EXCEPT !.sent_count = @ + 1,
                                 !.total_sent = @ + transfer.value,
                                 !.unique_counterparties = @ \cup {transfer.to}]
            ELSE stats
  IN  [s1 EXCEPT !.total_transfers = @ + 1]

\* after the loop: net_change and the size of the counterparty set
analyze_finish(stats) ==
  [stats EXCEPT !.net_change = stats.total_received - stats.total_sent,
                !.n_counterparties = Cardinality(stats.unique_counterparties)]

----------------------------------------------------------------------------
(* Specification SpecAnalyze: analyze_transfers applied to bounded lists *)

AddressIds == {"W", "A", "B"}
\* the sources hand out checksummed addresses
TransferAddresses == { Address(id, "checksum") : id \in AddressIds }
\* the wallet argument comes from the user in either case
WalletArgs == { Address("W", "checksum"), Address("W", "lower") }
TransferValues == {1, 2}
AnalyzedTransfers ==
  [from : TransferAddresses, to : TransferAddresses, value : TransferValues]

InitAnalyze ==
  /\ now = StartTime
  /\ files = EmptyDir
  /\ cache = QueryCache_init(0, DefaultMaxCacheSizeMb)
  /\ client = NoClient
  /\ pc = "idle"
  /\ call = NoCall
  /\ op = NoOp
  /\ hist = NoHist
  /\ ncalls = 0
  /\ mx = NoMerge
  /\ hx = NoHybrid
  /\ kx = NoKey
  /\ bx = NoWrap
  /\ cx = NoThreads
  /\ rl = NoLimiter
  /\ lx = NoLogs
  /\ vx = NoValidate
  /\ \E n \in 0..MaxTransfers :
     \E transfers \in [1..n -> AnalyzedTransfers], w \in WalletArgs :
        ax = [NoAnalyze EXCEPT !.pc = "args", !.transfers = transfers,
                               !.wallet_address = w]

\* analyze_transfers up to the loop
AnalyzeCall ==
  /\ ax.pc = "args"
  /\ ax' = [ax EXCEPT !.pc = "loop",
                      !.wallet_address = to_checksum_address(ax.wallet_address),
                      !.stats = ZeroAnalysis, !.i = 1]
  /\ UNCHANGED <<clientVars, mx, hx, kx, bx, cx, rl, lx, vx>>

AnalyzeStep ==
  /\ ax.pc = "loop"
  /\ ax.i <= Len(ax.transfers)
  /\ ax' = [ax EXCEPT !.stats = analyze_one(@, ax.transfers[ax.i], ax.wallet_address),
                      !.i = @ + 1]
  /\ UNCHANGED <<clientVars, mx, hx, kx, bx, cx, rl, lx, vx>>

AnalyzeReturn ==
  /\ ax.pc = "loop"
  /\ ax.i > Len(ax.transfers)
  /\ ax' = [ax EXCEPT !.pc = "done", !.stats = analyze_finish(@)]
  /\ UNCHANGED <<clientVars, mx, hx, kx, bx, cx, rl, lx, vx>>

NextAnalyze == AnalyzeCall \/ AnalyzeStep \/ AnalyzeReturn

SpecAnalyze == InitAnalyze /\ [][NextAnalyze]_vars

\* the positions of the transfers that satisfy P, and the sum of their values
RECURSIVE SumValues(_, _)
SumValues(transfers, I) ==
  IF I = {} THEN 0
  ELSE LET i == CHOOSE i \in I : TRUE
       IN  transfers[i].value + SumValues(transfers, I \ {i})

ToWallet == { i \in 1..Len(ax.transfers) : ax.transfers[i].to[1] = ax.wallet_address[1] }
FromWallet == { i \in 1..Len(ax.transfers) : ax.transfers[i].from[1] = ax.wallet_address[1] }

\* C22: analyze_transfers counts every transfer under both roles:
\* received_count and total_received over the transfers whose recipient is
\* the wallet, sent_count and total_sent over those whose sender is the
\* wallet (a transfer from the wallet to itself under both), and net_change
\* is total_received - total_sent
C22_AnalyzeBothRoles ==
  ax.pc = "done" =>
     /\ ax.stats.received_count = Cardinality(ToWallet)
     /\ ax.stats.sent_count = Cardinality(FromWallet)
     /\ ax.stats.total_received = SumValues(ax.transfers, ToWallet)
     /\ ax.stats.total_sent = SumValues(ax.transfers, FromWallet)
     /\ ax.stats.net_change = ax.stats.total_received - ax.stats.total_sent

----------------------------------------------------------------------------
(* GraphClient.clear_cache *)

\* the `compress` default of QueryCache.__init__, which GraphClient keeps
DefaultCompress == TRUE

\* QueryCache._get_cache_path: the file name of an entry
get_cache_path(cache_key, compress) ==
  <<cache_key, IF compress THEN ".json.gz" ELSE ".json">>

\* the file name clear_cache builds: `f"{cache_key}.json"`
clear_cache_path(cache_key) == <<cache_key, ".json">>

\* `cache_file.exists()` in the directory the QueryCache writes
path_exists(fs, path) ==
  \E k \in DOMAIN fs : fs[k].exists /\ get_cache_path(k, DefaultCompress) = path

\* `cache_file.unlink()`
unlink(fs, path) ==
  [k \in DOMAIN fs |->
     IF fs[k].exists /\ get_cache_path(k, DefaultCompress) = path THEN NoFile ELSE fs[k]]

\* Optional[str]
NoneQuery == [some |-> FALSE, text |-> <<>>]
SomeQuery(q) == [some |-> TRUE, text |-> q]

\* GraphClient.clear_cache(query, variables): the directory it leaves
clear_cache(cl, fs, query, variables) ==
  IF ~cl.cache_enabled THEN fs
  ELSE IF ~query.some THEN EmptyDir                \* rmtree, mkdir
  ELSE LET cache_file == clear_cache_path(get_cache_key(query.text, or_empty(variables)))
       IN  IF path_exists(fs, cache_file) THEN unlink(fs, cache_file) ELSE fs

----------------------------------------------------------------------------
(* Specification SpecClear: one sequential caller of GraphClient.query and
   GraphClient.clear_cache, on a client built with the default cache
   settings *)

ClearRatesCfg == { Rate(0, 1) }
\* the cache_ttl_minutes default of GraphClient.__init__
DefaultTtlMinutes == 5

InitClear ==
  /\ now = StartTime
  /\ files = EmptyDir
  /\ \E r \in ClearRatesCfg, mr \in 1..MaxRetriesCfg :
       client = GraphClient_init(TRUE, r, mr)
  /\ cache = QueryCache_init(DefaultTtlMinutes, DefaultMaxCacheSizeMb)
  /\ pc = "idle"
  /\ call = NoCall
  /\ op = NoOp
  /\ hist = NoHist
  /\ ncalls = 0
  /\ mx = NoMerge
  /\ hx = NoHybrid
  /\ kx = NoKey
  /\ bx = NoWrap
  /\ NoOtherCall

ClearCache ==
  /\ pc = "idle"
  /\ \E query \in {NoneQuery} \cup {SomeQuery(q) : q \in ClientQueries},
        v \in ClientVariableArgs :
       /\ files' = clear_cache(client, files, query, v)
       /\ op' = IF query.some
                  THEN Op("clear_cache", get_cache_key(query.text, or_empty(v)), None, "")
                ELSE Op("clear_cache_all", <<>>, None, "")
  /\ UNCHANGED <<now, cache, client, pc, call, hist, ncalls, mx, hx, kx, bx, restVars>>

NextClear == QueryStart \/ QueryAttempt \/ ClearCache

SpecClear == InitClear /\ [][NextClear]_vars

\* C23: clear_cache(q, v) clears the entry of that query: the next
\* query(q, v) with caching in use finds nothing in the cache and goes to the
\* endpoint; clear_cache() without a query leaves the directory empty
C23_ClearCacheClears ==
  [][ /\ op'.name = "clear_cache_all" => entry_count(files') = 0
      /\ ( /\ op.name = "clear_cache"
            /\ QueryBegins
            /\ op'.key = op.key
            /\ client.cache_enabled /\ call'.use_cache )
         => ( /\ op'.name = "query_start"
              /\ client'.stats.cache_hits = client.stats.cache_hits
              /\ client'.stats.cache_misses = client.stats.cache_misses + 1 ) ]_vars

----------------------------------------------------------------------------
(* Specification SpecRace: callers running the request path of
   GraphClient.query concurrently on one client.  A caller is preempted
   between reading last_request_time, sleeping, writing last_request_time
   and sending its request. *)

Callers == 1..MaxCallers
RaceRatesCfg == { Rate(5, 1), Rate(1, 2) }
RaceSteps == {100, MsPerSecond}

\* a caller outside _enforce_rate_limit
IdleCaller == [pc |-> "idle", wake |-> 0, calls |-> 0]

InitRace ==
  /\ now = StartTime
  /\ files = EmptyDir
  /\ cache = QueryCache_init(0, DefaultMaxCacheSizeMb)
  /\ \E r \in RaceRatesCfg : client = GraphClient_init(FALSE, r, 1)
  /\ pc = "idle"
  /\ call = NoCall
  /\ op = NoOp
  /\ hist = NoHist
  /\ ncalls = 0
  /\ mx = NoMerge
  /\ hx = NoHybrid
  /\ kx = NoKey
  /\ bx = NoWrap
  /\ ax = NoAnalyze
  /\ rl = NoLimiter
  /\ lx = NoLogs
  /\ vx = NoValidate
  /\ cx = [th |-> [c \in Callers |-> IdleCaller], sent |-> <<>>, ticks |-> 0]

\* time passes
RaceTick ==
  /\ cx.ticks < MaxTicks
  /\ \E d \in RaceSteps : now' = now + d
  /\ cx' = [cx EXCEPT !.ticks = @ + 1]
  /\ UNCHANGED <<files, cache, client, pc, call, op, hist, ncalls, mx, hx, kx, bx,
                 ax, rl, lx, vx>>

\* `current_time = time.time()`, the read of self.last_request_time and the
\* computation of wait_time
RaceRead(c) ==
  /\ cx.th[c].pc = "idle"
  /\ cx.th[c].calls < MaxCalls
  /\ cx' = [cx EXCEPT !.th[c].pc = "sleep",
                      !.th[c].wake = now + rate_limit_wait(client, now),
                      !.th[c].calls = @ + 1]
  /\ UNCHANGED <<now, files, cache, client, pc, call, op, hist, ncalls, mx, hx, kx,
                 bx, ax, rl, lx, vx>>

\* time.sleep(wait_time) is over: `self.last_request_time = time.time()`
RaceWrite(c) ==
  /\ cx.th[c].pc = "sleep"
  /\ now >= cx.th[c].wake
  /\ client' = rate_limit_mark(client, now)
  /\ cx' = [cx EXCEPT !.th[c].pc = "send"]
  /\ UNCHANGED <<now, files, cache, pc, call, op, hist, ncalls, mx, hx, kx, bx,
                 ax, rl, lx, vx>>

\* _execute_request: the request leaves
RaceSend(c) ==
  /\ cx.th[c].pc = "send"
  /\ cx' = [cx EXCEPT !.th[c].pc = "idle", !.sent = Append(@, now)]
  /\ UNCHANGED <<now, files, cache, client, pc, call, op, hist, ncalls, mx, hx, kx,
                 bx, ax, rl, lx, vx>>

NextRace ==
  \/ RaceTick
  \/ \E c \in Callers : RaceRead(c)
  \/ \E c \in Callers : RaceWrite(c)
  \/ \E c \in Callers : RaceSend(c)

SpecRace == InitRace /\ [][NextRace]_vars

\* C24: with callers sharing one client, whatever the interleaving of their
\* reads of last_request_time, sleeps and writes, any two outbound requests
\* are at least min_request_interval (1 / rate_limit_per_second) apart
C24_SharedSpacing ==
  \A i, j \in 1..Len(cx.sent) :
     i < j => cx.sent[j] - cx.sent[i] >= client.min_request_interval

----------------------------------------------------------------------------
(* RateLimiter (utils/rate_limiter.py) and the rate_limited decorator
   (handlers/blockchain.py).  Times are in milliseconds; window_seconds and
   the value of get_wait_time are whole seconds. *)

\* int(x) of a number of seconds given in milliseconds: truncation towards 0
int_seconds(ms) == IF ms >= 0 THEN ms \div MsPerSecond ELSE 0 - ((0 - ms) \div MsPerSecond)

\* the list comprehension of is_allowed: requests still inside the window
inside_window(reqs, t, window) == SelectSeq(reqs, LAMBDA req_time : t - req_time < window)

\* `len(self.requests[user_id]) < self.max_requests`, admitting one too many
under_limit_inclusive(n, max_requests) == n <= max_requests

\* `len(self.requests[user_id]) < self.max_requests`
under_limit(n, max_requests) == n < max_requests

\* RateLimiter.is_allowed(user_id) at time t: the limiter's new request lists
\* and the returned boolean
is_allowed(lim, user_id, t) ==
  LET kept == inside_window(lim.requests[user_id], t, lim.window)
  IN  IF under_limit(Len(kept), lim.max_requests)
      THEN [requests |-> [lim.requests EXCEPT ![user_id] = Append(kept, t)], ret |-> TRUE]
      ELSE [requests |-> [lim.requests EXCEPT ![user_id] = kept], ret |-> FALSE]

\* min() of a non-empty list of times
min_time(reqs) ==
  LET times == { reqs[i] : i \in 1..Len(reqs) }
  IN  CHOOSE m \in times : \A x \in times : m <= x

\* RateLimiter.get_wait_time(user_id) at time t, in whole seconds
get_wait_time(requests, window, user_id, t) ==
  IF requests[user_id] = <<>>
  THEN 0
  ELSE LET wait == int_seconds(min_time(requests[user_id]) + window - t)
       IN  IF wait > 0 THEN wait ELSE 0

\* the branch of the rate_limited wrapper
rate_limited(allowed) == IF ~allowed THEN "reply_wait" ELSE "run_body"

Users == {"u1", "u2"}
MaxRequestsCfg == {1, 2}
WindowSecondsCfg == {1, 2}
LimiterSteps == {300, MsPerSecond}

\* what the last command of a user met
NoCommand == [seen |-> FALSE, t |-> 0, allowed |-> FALSE, wait |-> 0]

InitLimiter ==
  /\ now = StartTime
  /\ files = EmptyDir
  /\ cache = QueryCache_init(0, DefaultMaxCacheSizeMb)
  /\ client = GraphClient_init(FALSE, Rate(0, 1), 1)
  /\ pc = "idle"
  /\ call = NoCall
  /\ op = NoOp
  /\ hist = NoHist
  /\ ncalls = 0
  /\ mx = NoMerge
  /\ hx = NoHybrid
  /\ kx = NoKey
  /\ bx = NoWrap
  /\ ax = NoAnalyze
  /\ cx = NoThreads
  /\ lx = NoLogs
  /\ vx = NoValidate
  /\ \E m \in MaxRequestsCfg, w \in WindowSecondsCfg :
        rl = [max_requests |-> m, window |-> w * MsPerSecond,
              requests |-> [u \in Users |-> <<>>],
              admitted |-> [u \in Users |-> <<>>],
              bodies |-> [u \in Users |-> 0],
              replies |-> [u \in Users |-> 0],
              last |-> [u \in Users |-> NoCommand],
              ncmd |-> 0, ticks |-> 0]

\* time passes between commands
LimiterTick ==
  /\ rl.ticks < MaxTicks
  /\ \E d \in LimiterSteps : now' = now + d
  /\ rl' = [rl EXCEPT !.ticks = @ + 1]
  /\ UNCHANGED <<files, cache, client, pc, call, op, hist, ncalls, mx, hx, kx, bx,
                 ax, cx, lx, vx>>

\* a command of a user arrives at a handler wrapped by rate_limited
Command(u) ==
  /\ rl.ncmd < MaxCommands
  /\ LET r == is_allowed(rl, u, now)
         branch == rate_limited(r.ret)
         wait == IF branch = "reply_wait"
                 THEN get_wait_time(r.requests, rl.window, u, now) ELSE 0
     IN  rl' = [rl EXCEPT
                 !.requests = r.requests,
                 !.admitted[u] = IF r.ret THEN Append(@, now) ELSE @,
                 !.bodies[u] = IF branch = "run_body" THEN @ + 1 ELSE @,
                 !.replies[u] = IF branch = "reply_wait" THEN @ + 1 ELSE @,
                 !.last[u] = [seen |-> TRUE, t |-> now, allowed |-> r.ret, wait |-> wait],
                 !.ncmd = @ + 1]
  /\ UNCHANGED <<now, files, cache, client, pc, call, op, hist, ncalls, mx, hx, kx,
                 bx, ax, cx, lx, vx>>

NextLimiter == LimiterTick \/ \E u \in Users : Command(u)

SpecLimiter == InitLimiter /\ [][NextLimiter]_vars

\* C25: for every user, any max_requests + 1 admitted calls span at least one
\* whole window (so an interval shorter than the window holds at most
\* max_requests of them); the recorded timestamps are the latest admitted
\* calls and no denied one; the wrapped body has run exactly once per
\* admitted call
C25_AtMostMaxPerWindow ==
  /\ rl.max_requests > 0 =>
       \A u \in Users :
          /\ \A i \in 1..Len(rl.admitted[u]) :
                i + rl.max_requests <= Len(rl.admitted[u]) =>
                  rl.admitted[u][i + rl.max_requests] - rl.admitted[u][i] >= rl.window
          /\ rl.bodies[u] = Len(rl.admitted[u])
          /\ \E k \in 0..Len(rl.admitted[u]) :
                rl.requests[u] = SubSeq(rl.admitted[u], k + 1, Len(rl.admitted[u]))

\* a user was denied after max_requests admitted calls and was admitted again
\* once the window had passed
C25_Witness ==
  \E u \in Users :
     /\ Len(rl.admitted[u]) > rl.max_requests
     /\ rl.replies[u] > 0
     /\ rl.last[u].allowed

\* the step is a command of user u
CommandOf(u) == rl'.bodies[u] + rl'.replies[u] = rl.bodies[u] + rl.replies[u] + 1

\* C26: a user denied at t with w = get_wait_time read at t is admitted by
\* the next is_allowed call, made at t + w
C26_AdmittedAfterWait ==
  [][\A u \in Users :
       (/\ rl.last[u].seen /\ ~rl.last[u].allowed
        /\ CommandOf(u)
        /\ now = rl.last[u].t + rl.last[u].wait * MsPerSecond)
       => rl'.last[u].allowed]_vars

----------------------------------------------------------------------------
(* Specification SpecLogs: the log loop of
   TransfersAnalytics._get_transfers_rpc.  A log either decodes or raises
   while its topics and data are decoded; the block of a log either can be
   fetched for its timestamp or get_block raises. *)

\* a log as the node returns it: `decodes` tells whether lines 226-229 run
\* through, `block_ok` whether get_block(log['blockNumber']) answers
Log(id, decodes, from, to, block_ok) ==
  [id |-> id, decodes |-> decodes, from |-> from, to |-> to, block_ok |-> block_ok]

\* no wallet filter: `wallet_address` is None
NoWallet == <<>>

\* `wallet_address and wallet_address not in [from_addr, to_addr]`
filtered_out(wallet_address, from_addr, to_addr) ==
  wallet_address # NoWallet /\ wallet_address \notin {from_addr, to_addr}

\* the body of the loop for one log: decode, wallet filter, block timestamp,
\* append; `except Exception: print(...); continue`
parse_log(transfers, log, wallet_address) ==
  IF ~log.decodes
  THEN [transfers |-> transfers, printed |-> 1]
  ELSE IF filtered_out(wallet_address, to_checksum_address(log.from),
                       to_checksum_address(log.to))
  THEN [transfers |-> transfers, printed |-> 0]
  ELSE IF ~log.block_ok
  THEN [transfers |-> transfers, printed |-> 1]
  ELSE [transfers |-> Append(transfers, log.id), printed |-> 0]

LogShapes ==
  { [decodes |-> TRUE,  from |-> Address("W", "lower"), to |-> Address("A", "lower"), block_ok |-> TRUE],
    [decodes |-> TRUE,  from |-> Address("A", "lower"), to |-> Address("B", "lower"), block_ok |-> TRUE],
    [decodes |-> FALSE, from |-> Address("W", "lower"), to |-> Address("A", "lower"), block_ok |-> TRUE],
    [decodes |-> TRUE,  from |-> Address("A", "lower"), to |-> Address("W", "lower"), block_ok |-> FALSE] }

\* the lists get_logs can return: log i carries id i
LogLists ==
  UNION { { [i \in 1..n |-> Log(i, f[i].decodes, f[i].from, f[i].to, f[i].block_ok)] :
            f \in [1..n -> LogShapes] } : n \in 0..MaxLogs }

LogWallets == { NoWallet, Address("W", "checksum") }

InitLogs ==
  /\ now = StartTime
  /\ files = EmptyDir
  /\ cache = QueryCache_init(0, DefaultMaxCacheSizeMb)
  /\ client = GraphClient_init(FALSE, Rate(0, 1), 1)
  /\ pc = "idle"
  /\ call = NoCall
  /\ op = NoOp
  /\ hist = NoHist
  /\ ncalls = 0
  /\ mx = NoMerge
  /\ hx = NoHybrid
  /\ kx = NoKey
  /\ bx = NoWrap
  /\ ax = NoAnalyze
  /\ cx = NoThreads
  /\ rl = NoLimiter
  /\ vx = NoValidate
  /\ \E w \in LogWallets :
        lx = [NoLogs EXCEPT !.pc = "start", !.wallet_address = w]

\* lines 188-222: get_logs answers with a list of logs, or raises and the
\* outer handler returns []
LogsFetch ==
  /\ lx.pc = "start"
  /\ \/ \E logs \in LogLists : lx' = [lx EXCEPT !.pc = "loop", !.logs = logs, !.i = 1]
     \/ lx' = [lx EXCEPT !.pc = "done", !.raised = TRUE]
  /\ UNCHANGED <<clientVars, mx, hx, kx, bx, ax, cx, rl, vx>>

\* one iteration of `for log in logs`
LogsStep ==
  /\ lx.pc = "loop"
  /\ lx.i <= Len(lx.logs)
  /\ LET r == parse_log(lx.transfers, lx.logs[lx.i], lx.wallet_address)
     IN  lx' = [lx EXCEPT !.transfers = r.transfers,
                         !.printed = @ + r.printed,
                         !.i = @ + 1]
  /\ UNCHANGED <<clientVars, mx, hx, kx, bx, ax, cx, rl, vx>>

\* `return transfers`
LogsReturn ==
  /\ lx.pc = "loop"
  /\ lx.i > Len(lx.logs)
  /\ lx' = [lx EXCEPT !.pc = "done"]
  /\ UNCHANGED <<clientVars, mx, hx, kx, bx, ax, cx, rl, vx>>

NextLogs == LogsFetch \/ LogsStep \/ LogsReturn

SpecLogs == InitLogs /\ [][NextLogs]_vars

\* the log decodes and involves the wallet the caller asked for
DecodesAndPasses(log) ==
  /\ log.decodes
  /\ lx.wallet_address # NoWallet =>
       \/ log.from[1] = lx.wallet_address[1]
       \/ log.to[1] = lx.wallet_address[1]

\* ids of the logs of a list that decode and pass the filter, in list order
RECURSIVE DecodableIds(_)
DecodableIds(logs) ==
  IF logs = <<>> THEN <<>>
  ELSE (IF DecodesAndPasses(Head(logs)) THEN <<Head(logs).id>> ELSE <<>>)
       \o DecodableIds(Tail(logs))

\* C27: the list returned by the on-chain log fetch holds exactly the logs
\* that decode and pass the wallet filter, in the order the node returned
\* them, wherever the failing logs are
C27_ExactlyDecodableLogs ==
  lx.pc = "done" /\ ~lx.raised =>
    lx.transfers = DecodableIds(lx.logs)

----------------------------------------------------------------------------
(* Validators.validate_eth_address (utils/validators.py).  A string is a
   sequence of one-character strings. *)

HexChars == {"0", "1", "2", "3", "4", "5", "6", "7", "8", "9",
             "a", "b", "c", "d", "e", "f", "A", "B", "C", "D", "E", "F"}
PadChars == {" ", "\n"}

\* str.startswith('0x')
startswith_0x(text) == Len(text) >= 2 /\ text[1] = "0" /\ text[2] = "x"

\* re.match(r'^0x[0-9a-fA-F]{40}$', str): `$` also matches before one
\* trailing newline
matches_address_re(text) ==
  /\ Len(text) \in {42, 43}
  /\ startswith_0x(text)
  /\ \A i \in 3..42 : text[i] \in HexChars
  /\ Len(text) = 43 => text[43] = "\n"

\* the argument: None or a string
NoneAddress == [is_none |-> TRUE, s |-> <<>>]
StrAddress(text) == [is_none |-> FALSE, s |-> text]

EmptyMsg == <<"Address cannot be empty">>
PrefixMsg == <<"Address must start with '0x'">>
LengthMsg(n) == <<"Address must be 42 characters (got ", n, ")">>
CharsMsg == <<"Address contains invalid characters">>
NoMsg == <<>>

\* validate_eth_address with the length check taken before the prefix check
validate_eth_address_length_first(address) ==
  IF address.is_none \/ address.s = <<>>
  THEN [valid |-> FALSE, msg |-> EmptyMsg]
  ELSE LET stripped == strip(address.s)
       IN  IF Len(stripped) # 42
           THEN [valid |-> FALSE, msg |-> LengthMsg(Len(stripped))]
           ELSE IF ~startswith_0x(stripped)
           THEN [valid |-> FALSE, msg |-> PrefixMsg]
           ELSE IF ~matches_address_re(stripped)
           THEN [valid |-> FALSE, msg |-> CharsMsg]
           ELSE [valid |-> TRUE, msg |-> NoMsg]

\* Validators.validate_eth_address(address)
validate_eth_address(address) ==
  IF address.is_none \/ address.s = <<>>
  THEN [valid |-> FALSE, msg |-> EmptyMsg]
  ELSE LET stripped == strip(address.s)
       IN  IF ~startswith_0x(stripped)
           THEN [valid |-> FALSE, msg |-> PrefixMsg]
           ELSE IF Len(stripped) # 42
           THEN [valid |-> FALSE, msg |-> LengthMsg(Len(stripped))]
           ELSE IF ~matches_address_re(stripped)
           THEN [valid |-> FALSE, msg |-> CharsMsg]
           ELSE [valid |-> TRUE, msg |-> NoMsg]

\* n copies of a character
Repeat(ch, n) == [i \in 1..n |-> ch]

AddressPrefixes == { <<>>, <<"0", "x">>, <<"0", "X">> }
Pads == UNION { { Repeat(ch, n) : ch \in PadChars } : n \in 0..MaxPad }
OddChars == {"g", " ", "x", "F", "0"}

\* the characters after the prefix: hexadecimal digits, with at most one
\* other character at the first or the last place
AddressBodies ==
  UNION { { Repeat("a", n) } \cup
          { [Repeat("a", n) EXCEPT ![k] = ch] : ch \in OddChars, k \in {1, n} \cap 1..n }
        : n \in (40 - MaxOff)..(40 + MaxOff) }

AddressArgs ==
  { NoneAddress, StrAddress(<<>>) } \cup
  { StrAddress(l \o pre \o b \o r) :
      l \in Pads, pre \in AddressPrefixes, b \in AddressBodies \cup {<<>>}, r \in Pads }

InitValidate ==
  /\ now = StartTime
  /\ files = EmptyDir
  /\ cache = QueryCache_init(0, DefaultMaxCacheSizeMb)
  /\ client = GraphClient_init(FALSE, Rate(0, 1), 1)
  /\ pc = "idle"
  /\ call = NoCall
  /\ op = NoOp
  /\ hist = NoHist
  /\ ncalls = 0
  /\ mx = NoMerge
  /\ hx = NoHybrid
  /\ kx = NoKey
  /\ bx = NoWrap
  /\ ax = NoAnalyze
  /\ cx = NoThreads
  /\ rl = NoLimiter
  /\ lx = NoLogs
  /\ \E a \in AddressArgs : vx = [NoValidate EXCEPT !.pc = "call", !.address = a]

\* the call of validate_eth_address
Validate ==
  /\ vx.pc = "call"
  /\ vx' = [vx EXCEPT !.pc = "done", !.ret = validate_eth_address(vx.address)]
  /\ UNCHANGED <<clientVars, mx, hx, kx, bx, ax, cx, rl, lx>>

NextValidate == Validate

SpecValidate == InitValidate /\ [][NextValidate]_vars

\* the argument with its surrounding whitespace removed (None has none)
Stripped == IF vx.address.is_none THEN <<>> ELSE strip(vx.address.s)

\* '0x' followed by exactly 40 hexadecimal characters
WellFormed(text) ==
  /\ Len(text) = 42
  /\ text[1] = "0" /\ text[2] = "x"
  /\ \A i \in 3..42 : text[i] \in HexChars

\* the message of the first failing check, the empty check being `isEmpty`
FirstFailing(isEmpty) ==
  IF isEmpty THEN EmptyMsg
  ELSE IF ~(Len(Stripped) >= 2 /\ SubSeq(Stripped, 1, 2) = <<"0", "x">>) THEN PrefixMsg
  ELSE IF Len(Stripped) # 42 THEN LengthMsg(Len(Stripped))
  ELSE CharsMsg

C28_WitnessBlank ==
  /\ vx.pc = "done"
  /\ ~vx.address.is_none
  /\ vx.address.s # <<>>
  /\ Stripped = <<>>
  /\ vx.ret = [valid |-> FALSE, msg |-> PrefixMsg]

----------------------------------------------------------------------------
(* The windows of the chunked plan (specification SpecHybrid) *)

\* C30: in the chunked plan the windows are asked in ascending block order,
\* no two of them share a block, and every block of [from_block, to_block],
\* to_block included, lies in exactly one window, for every
\* from_block < to_block and chunk size >= 1
C30_ChunksPartitionRange ==
  (Planned /\ hx.pc = "done" /\ hx.plan = "chunked" /\ hx.max_blocks >= 1
     /\ hx.from_block < hx.to_block) =>
    LET qs == hx.queries
    IN  /\ \A i \in 1..(Len(qs) - 1) : qs[i].to_block < qs[i + 1].from_block
        /\ \A i \in 1..Len(qs) :
              hx.from_block <= qs[i].from_block /\ qs[i].to_block <= hx.to_block
        /\ \A b \in hx.from_block..hx.to_block :
              Cardinality({ i \in 1..Len(qs) : InQuery(b, qs[i]) }) = 1

----------------------------------------------------------------------------
(* What get_transfers_hybrid hands back (specification SpecHybrid) *)

\* C21: when the chain head cannot be read, or the subgraph query of the
\* hybrid plan fails, the caller of get_transfers_hybrid receives an error
\* and not a list of transfers
C21_FailureReachesCaller ==
  (hx.pc = "done" /\ (hx.raised \/ (hx.plan = "hybrid" /\ "subgraph" \in hx.failed))) =>
     hx.ret_kind = "error"

\* C29: every transfer returned by get_transfers_hybrid lies in a block of
\* [from_block, to_block], in each plan and wherever to_block and from_block
\* are relative to rpc_cutoff, each source returning only transfers of the
\* range it was asked for
C29_ReturnedWithinRange ==
  (Planned /\ hx.pc = "done") =>
     \A b \in hx.ret_blocks : hx.from_block <= b /\ b <= hx.to_block

----------------------------------------------------------------------------
(* Specification SpecDedup: _merge_transfers applied to the lists its two
   sources build.  A record stands for one Transfer event of the chain, the
   log at position `event` of its transaction; _get_transfers_subgraph builds
   records without 'log_index', _get_transfers_rpc records with it. *)

\* the record _get_transfers_subgraph builds for an event (no 'log_index')
SubgraphRecord(tx_id, event) ==
  [tx_hash |-> tx_id, has_log_index |-> FALSE, log_index |-> 0,
   block_number |-> IF tx_id = <<"a">> THEN 1 ELSE 2, event |-> event]

\* the record _get_transfers_rpc builds for an event: 'log_index': log['logIndex']
RpcRecord(tx_id, event) ==
  [tx_hash |-> tx_id, has_log_index |-> TRUE, log_index |-> event,
   block_number |-> IF tx_id = <<"a">> THEN 1 ELSE 2, event |-> event]

LogPositions == {0, 1}

InitDedup ==
  /\ now = StartTime
  /\ files = EmptyDir
  /\ cache = QueryCache_init(0, DefaultMaxCacheSizeMb)
  /\ client = NoClient
  /\ pc = "idle"
  /\ call = NoCall
  /\ op = NoOp
  /\ hist = NoHist
  /\ ncalls = 0
  /\ hx = NoHybrid
  /\ kx = NoKey
  /\ bx = NoWrap
  /\ NoOtherCall
  /\ \E n \in 0..MaxTransfers :
     \E k \in 0..n :
     \E h \in [1..k -> TxHashes \X LogPositions],
        r \in [1..(n - k) -> TxHashes \X LogPositions] :
        mx = [pc |-> "args",
              historical |-> [i \in 1..k |-> SubgraphRecord(h[i][1], h[i][2])],
              recent |-> [i \in 1..(n - k) |-> RpcRecord(r[i][1], r[i][2])],
              merged |-> <<>>]

NextDedup == MergeCall

SpecDedup == InitDedup /\ [][NextDedup]_vars

\* the on-chain event a record stands for: transaction and log position
EventOf(t) == <<t.tx_hash, t.event>>

\* C31: deduplication loses no distinct transfer: every on-chain event that
\* has a record in historical or recent still has one in the merged list,
\* also two events of one transaction delivered by the subgraph, and a
\* subgraph record next to an on-chain record with log index 0
C31_NoDistinctTransferLost ==
  mx.pc = "done" =>
    \A i \in 1..Len(mx.historical \o mx.recent) :
       \E j \in 1..Len(mx.merged) :
          EventOf(mx.merged[j]) = EventOf((mx.historical \o mx.recent)[i])

----------------------------------------------------------------------------
(* Specification SpecLongTtl: a caller asks for token information through
   query_with_custom_ttl (override 24 h, default ttl 15 min); between its
   calls plain queries run, cleanup_expired runs, and other clients are
   constructed on the same cache directory. *)

\* QueryCache.cleanup_expired: every file older than the ttl is unlinked
cleanup_expired(c, fs, t) ==
  [k \in DOMAIN fs |-> IF fs[k].exists /\ t - fs[k].mtime > c.ttl THEN NoFile ELSE fs[k]]

\* the query of get_token_info and its query type
TokenInfoQuery == <<"a">>
TokenInfoType == "token_info"

LongCalls == MaxCalls + 1
LongSteps == {20 * MsPerMinute}
LongPlainQueries == {TokenInfoQuery, <<"b">>}
\* cache_ttl_minutes of a client constructed on the same directory
OtherClientTtlMinutes == {DefaultTtlMinutes, CachedDefaultTtlMinutes}

InitLongTtl ==
  /\ now = StartTime
  /\ files = EmptyDir
  /\ client = GraphClient_init(TRUE, Rate(0, 1), 1)
  /\ cache = QueryCache_init(CachedDefaultTtlMinutes, DefaultMaxCacheSizeMb)
  /\ pc = "idle"
  /\ call = NoCall
  /\ op = NoOp
  /\ hist = NoHist
  /\ ncalls = 0
  /\ mx = NoMerge
  /\ hx = NoHybrid
  /\ kx = NoKey
  /\ bx = NoWrap
  /\ NoOtherCall

\* the caller is between two calls
LongBetween == pc = "idle" /\ bx.pc \in {"idle", "returned"}

\* time passes between calls
LongTick ==
  /\ LongBetween
  /\ bx.i < MaxTicks
  /\ \E d \in LongSteps : now' = now + d
  /\ bx' = [bx EXCEPT !.i = @ + 1]
  /\ UNCHANGED <<files, cache, client, pc, call, op, hist, ncalls, mx, hx, kx, restVars>>

\* get_token_info: query_with_custom_ttl(query, query_type='token_info')
LongEnter ==
  /\ LongBetween
  /\ ncalls < LongCalls
  /\ ncalls' = ncalls + 1
  /\ CustomTtlBegin(TokenInfoQuery, NoneVars, TokenInfoType, "none",
                    [NoWrap EXCEPT !.i = bx.i, !.entered_at = now,
                                   !.cached_at = bx.cached_at,
                                   !.prior_cached_at = bx.cached_at])
  /\ UNCHANGED <<now, mx, hx, kx, restVars>>

\* the call returns or raises; when it has fetched the response and written
\* it to the cache, the time of the write is remembered
LongExit ==
  /\ bx.pc = "in_query" /\ bx.kind = "custom_ttl"
  /\ pc = "idle"
  /\ CustomTtlEnd([bx EXCEPT !.cached_at =
                     IF /\ hist.attempts >= 1
                        /\ op.raised = ""
                        /\ files[op.key].exists
                        /\ files[op.key].mtime >= bx.entered_at
                     THEN files[op.key].mtime ELSE @])
  /\ UNCHANGED <<now, files, client, pc, call, hist, ncalls, mx, hx, kx, restVars>>

\* a plain GraphClient.query call, of the same key or of another one
LongPlainQuery ==
  /\ LongBetween
  /\ ncalls < LongCalls
  /\ ncalls' = ncalls + 1
  /\ \E q \in LongPlainQueries : QueryBegin(cache, q, NoneVars, TRUE, TRUE, "none")
  /\ UNCHANGED <<now, mx, hx, kx, bx, restVars>>

\* client.cache.cleanup_expired()
LongCleanup ==
  /\ LongBetween
  /\ files' = cleanup_expired(cache, files, now)
  /\ UNCHANGED <<now, cache, client, pc, call, op, hist, ncalls, mx, hx, kx, bx, restVars>>

\* another client is constructed on the same cache directory: its
\* QueryCache.__init__ runs cleanup_expired with its own ttl
LongOtherClient ==
  /\ LongBetween
  /\ \E m \in OtherClientTtlMinutes :
        files' = cleanup_expired(QueryCache_init(m, DefaultMaxCacheSizeMb), files, now)
  /\ UNCHANGED <<now, cache, client, pc, call, op, hist, ncalls, mx, hx, kx, bx, restVars>>

NextLongTtl ==
  LongTick \/ LongEnter \/ QueryAttempt \/ LongExit \/ LongPlainQuery
  \/ LongCleanup \/ LongOtherClient

SpecLongTtl == InitLongTtl /\ [][NextLongTtl]_vars

\* C32: once a query_with_custom_ttl call of type 'token_info' has cached
\* its response, a later call of the same query and type made before the
\* 24 h override has elapsed is a cache hit (no outbound request), whatever
\* ran in between
C32_OverrideOutlivesDefault ==
  [][ ( /\ bx.kind = "custom_ttl" /\ bx.pc = "in_query" /\ bx'.pc = "returned"
        /\ bx.prior_cached_at >= 0
        /\ bx.entered_at - bx.prior_cached_at <= custom_ttls[TokenInfoType] )
      => (hist.attempts = 0 /\ bx'.ret # None) ]_vars

----------------------------------------------------------------------------
(* Specification SpecTtlRace: callers running query_with_custom_ttl
   concurrently on one CachedGraphClient.  A caller is preempted between
   reading cache.ttl, writing the override, the query itself and the finally
   block. *)

\* a caller outside query_with_custom_ttl
TtlCaller == [pc |-> "idle", original_ttl |-> NoneInt, query_type |-> "default", calls |-> 0]

InitTtlRace ==
  /\ now = StartTime
  /\ files = EmptyDir
  /\ client = GraphClient_init(TRUE, Rate(0, 1), 1)
  /\ cache = QueryCache_init(CachedDefaultTtlMinutes, DefaultMaxCacheSizeMb)
  /\ pc = "idle"
  /\ call = NoCall
  /\ op = NoOp
  /\ hist = NoHist
  /\ ncalls = 0
  /\ mx = NoMerge
  /\ hx = NoHybrid
  /\ kx = NoKey
  /\ bx = NoWrap
  /\ ax = NoAnalyze
  /\ rl = NoLimiter
  /\ lx = NoLogs
  /\ vx = NoValidate
  /\ cx = [th |-> [c \in Callers |-> TtlCaller], sent |-> <<>>, ticks |-> 0]

\* `original_ttl = self.cache.ttl if self.cache else None`
TtlRead(c) ==
  /\ cx.th[c].pc = "idle"
  /\ cx.th[c].calls < MaxCalls
  /\ \E query_type \in QueryTypes :
        cx' = [cx EXCEPT !.th[c].pc = "read",
                         !.th[c].original_ttl = read_original_ttl(client, cache),
                         !.th[c].query_type = query_type,
                         !.th[c].calls = @ + 1]
  /\ UNCHANGED <<now, files, cache, client, pc, call, op, hist, ncalls, mx, hx, kx,
                 bx, ax, rl, lx, vx>>

\* `if self.cache and query_type in self.custom_ttls: self.cache.ttl = ...`
TtlWrite(c) ==
  /\ cx.th[c].pc = "read"
  /\ cache' = apply_custom_ttl(client, cache, cx.th[c].query_type)
  /\ cx' = [cx EXCEPT !.th[c].pc = "query"]
  /\ UNCHANGED <<now, files, client, pc, call, op, hist, ncalls, mx, hx, kx,
                 bx, ax, rl, lx, vx>>

\* `result = self.query(query, variables)` returns or raises; the store's
\* ttl is not written by it
TtlQuery(c) ==
  /\ cx.th[c].pc = "query"
  /\ cx' = [cx EXCEPT !.th[c].pc = "finally"]
  /\ UNCHANGED <<now, files, cache, client, pc, call, op, hist, ncalls, mx, hx, kx,
                 bx, ax, rl, lx, vx>>

\* the finally block
TtlRestore(c) ==
  /\ cx.th[c].pc = "finally"
  /\ cache' = restore_ttl(client, cache, cx.th[c].original_ttl)
  /\ cx' = [cx EXCEPT !.th[c].pc = "idle"]
  /\ UNCHANGED <<now, files, client, pc, call, op, hist, ncalls, mx, hx, kx,
                 bx, ax, rl, lx, vx>>

NextTtlRace ==
  \/ \E c \in Callers : TtlRead(c)
  \/ \E c \in Callers : TtlWrite(c)
  \/ \E c \in Callers : TtlQuery(c)
  \/ \E c \in Callers : TtlRestore(c)

SpecTtlRace == InitTtlRace /\ [][NextTtlRace]_vars

\* C33: with query_with_custom_ttl calls running concurrently on one client,
\* each caller with a query type of its own, in every interleaving the
\* store's ttl is the client's configured default once all calls have returned
C33_TtlDefaultAfterConcurrentCalls ==
  ( /\ \A c \in Callers : cx.th[c].pc = "idle" /\ cx.th[c].calls = 1
    /\ \A c, d \in Callers : c # d => cx.th[c].query_type # cx.th[d].query_type )
  => cache.ttl = CachedDefaultTtlMinutes * MsPerMinute

\* ---------------------------------------------------------------------------
\* Two callers of GraphClient.query that miss on one cache key and write it
\* ---------------------------------------------------------------------------

\* a response is dumped to the file in up to MaxChunks writes
MaxChunks == 2

Hole == [w |-> 0, i |-> 0, n |-> 0]
Chunk(c, i, n) == [w |-> c, i |-> i, n |-> n]

\* `json.dump(result, f)`: the response of caller c, n writes long
dumped(c, n) == [i \in 1..n |-> Chunk(c, i, n)]

\* a write through a handle opened with mode 'w': at the handle's own
\* position p, over what the file holds there, leaving the rest in place
write_at(data, p, ch) ==
  [i \in 1..Max(Len(data), p) |->
     IF i = p THEN ch ELSE IF i <= Len(data) THEN data[i] ELSE Hole]

\* `json.load(f)` decodes a complete dump and raises on anything else
loads_ok(data) == Len(data) > 0 /\ data = dumped(data[1].w, data[1].n)

SetCaller == [pc |-> "idle", n |-> 0, pos |-> 0, ret |-> <<>>, missed |-> FALSE]

InitSetRace ==
  /\ now = StartTime
  /\ files = <<>>
  /\ cache = QueryCache_init(DefaultTtlMinutes, DefaultMaxCacheSizeMb)
  /\ client = NoClient
  /\ pc = "idle"
  /\ call = NoCall
  /\ op = NoOp
  /\ hist = NoHist
  /\ ncalls = 0
  /\ mx = NoMerge
  /\ hx = NoHybrid
  /\ kx = NoKey
  /\ bx = NoWrap
  /\ ax = NoAnalyze
  /\ rl = NoLimiter
  /\ lx = NoLogs
  /\ vx = NoValidate
  /\ cx = [th |-> [c \in Callers |-> SetCaller], sent |-> <<>>, ticks |-> 0,
           file |-> [exists |-> FALSE, data |-> <<>>], errors |-> 0]

\* QueryCache.get on the shared key: no file is a miss, a file that decodes
\* is a hit, a file that does not decode is caught, counted and a miss
SetRaceGet(c) ==
  /\ cx.th[c].pc = "idle"
  /\ IF cx.file.exists /\ loads_ok(cx.file.data)
       THEN cx' = [cx EXCEPT !.th[c].pc = "done", !.th[c].ret = cx.file.data]
       ELSE cx' = [cx EXCEPT !.th[c].pc = "fetch", !.th[c].missed = TRUE,
                             !.errors = IF cx.file.exists THEN @ + 1 ELSE @]
  /\ UNCHANGED <<now, files, cache, client, pc, call, op, hist, ncalls, mx, hx, kx,
                 bx, ax, rl, lx, vx>>

\* `result = self._execute_request(query, variables)`
SetRaceFetch(c) ==
  /\ cx.th[c].pc = "fetch"
  /\ \E n \in 1..MaxChunks :
        cx' = [cx EXCEPT !.th[c].pc = "open", !.th[c].n = n]
  /\ UNCHANGED <<now, files, cache, client, pc, call, op, hist, ncalls, mx, hx, kx,
                 bx, ax, rl, lx, vx>>

\* `open(cache_file, 'w')` creates or truncates the file
SetRaceOpen(c) ==
  /\ cx.th[c].pc = "open"
  /\ cx' = [cx EXCEPT !.th[c].pc = "write", !.th[c].pos = 1,
                      !.file = [exists |-> TRUE, data |-> <<>>]]
  /\ UNCHANGED <<now, files, cache, client, pc, call, op, hist, ncalls, mx, hx, kx,
                 bx, ax, rl, lx, vx>>

\* one write of `json.dump(result, f)`
SetRaceWrite(c) ==
  /\ cx.th[c].pc = "write"
  /\ LET t == cx.th[c] IN
       cx' = [cx EXCEPT !.th[c].pos = @ + 1,
                        !.th[c].pc = IF t.pos = t.n THEN "close" ELSE "write",
                        !.file.data = write_at(@, t.pos, Chunk(c, t.pos, t.n)),
                        !.sent = Append(@, c)]
  /\ UNCHANGED <<now, files, cache, client, pc, call, op, hist, ncalls, mx, hx, kx,
                 bx, ax, rl, lx, vx>>

\* the file is closed, set returns and query returns the response
SetRaceClose(c) ==
  /\ cx.th[c].pc = "close"
  /\ cx' = [cx EXCEPT !.th[c].pc = "done", !.th[c].ret = dumped(c, cx.th[c].n)]
  /\ UNCHANGED <<now, files, cache, client, pc, call, op, hist, ncalls, mx, hx, kx,
                 bx, ax, rl, lx, vx>>

NextSetRace ==
  \/ \E c \in Callers : SetRaceGet(c)
  \/ \E c \in Callers : SetRaceFetch(c)
  \/ \E c \in Callers : SetRaceOpen(c)
  \/ \E c \in Callers : SetRaceWrite(c)
  \/ \E c \in Callers : SetRaceClose(c)

SpecSetRace == InitSetRace /\ [][NextSetRace]_vars

LastWriter == cx.sent[Len(cx.sent)]

\* C34: when two callers both miss on one key and both write it, after both
\* have returned the store holds one entry for the key and its payload is the
\* response written last
C34_LastWriterWins ==
  (\A c \in Callers : cx.th[c].pc = "done" /\ cx.th[c].missed)
  => ( /\ cx.file.exists
       /\ cx.file.data = dumped(LastWriter, cx.th[LastWriter].n) )

----------------------------------------------------------------------------
(* Further properties of GraphClient.query, on SpecClient *)

NotFromCache == client.stats.cache_hits = hist.stats0.cache_hits

\* C35: a query call that has ended, returning or raising, without returning
\* from the cache has sent at least one request to the endpoint
C35_RequestBeforeEnd ==
  (op.name = "query" /\ NotFromCache) => hist.attempts >= 1

\* C36: a query call that ends by raising, after exhausting its attempts or
\* on a rate-limit error, leaves failed_queries exactly one higher than it
\* was when the call began
C36_RaiseCountsAsFailed ==
  (op.name = "query" /\ op.raised # "")
  => client.stats.failed_queries = hist.stats0.failed_queries + 1

----------------------------------------------------------------------------
(* Specification SpecBackoff: GraphClient.query on clients configured with
   up to MaxBackoffRetries attempts and no cache *)

MaxBackoffRetries == 4
BackoffRatesCfg == { Rate(5, 1), Rate(1, 2) }

InitBackoff ==
  /\ now = StartTime
  /\ files = EmptyDir
  /\ \E r \in BackoffRatesCfg, mr \in 1..MaxBackoffRetries :
       client = GraphClient_init(FALSE, r, mr)
  /\ cache = QueryCache_init(0, DefaultMaxCacheSizeMb)
  /\ pc = "idle"
  /\ call = NoCall
  /\ op = NoOp
  /\ hist = NoHist
  /\ ncalls = 0
  /\ mx = NoMerge
  /\ hx = NoHybrid
  /\ kx = NoKey
  /\ bx = NoWrap
  /\ NoOtherCall

NextBackoff == QueryStart \/ QueryAttempt

SpecBackoff == InitBackoff /\ [][NextBackoff]_vars

\* C37: the backoff sleeps of one query call are 1s, 2s, 4s, ... (2^attempt
\* seconds, attempt counted from 0), one after every failed attempt that is
\* followed by another attempt and none after the last attempt; the
\* rate-limit wait applies as well, so two consecutive attempts start at
\* least the backoff and at least min_request_interval apart
C37_BackoffBetweenAttempts ==
  LET k == Len(hist.sleeps) IN
    /\ \A i \in 1..k : hist.sleeps[i] = pow2(i - 1) * MsPerSecond
    /\ pc = "loop" => k = hist.attempts
    /\ (op.name = "query" /\ hist.attempts >= 1) => k = hist.attempts - 1
    /\ hist.attempts >= 2 =>
         /\ hist.last_request - hist.prev_request >= hist.sleeps[hist.attempts - 1]
         /\ hist.last_request - hist.prev_request >= client.min_request_interval

C37_Witness ==
  /\ op.name = "query"
  /\ op.raised = "GraphClientError"
  /\ hist.attempts = MaxBackoffRetries
  /\ Len(hist.sleeps) = MaxBackoffRetries - 1
  /\ client.min_request_interval > MsPerSecond

----------------------------------------------------------------------------
(* Termination of the chunked plan.  The loop of _get_transfers_rpc_chunked
   is sequential code that runs until its condition fails, which is weak
   fairness of the request's steps. *)

SpecHybridLive == InitHybrid /\ [][NextHybrid]_vars /\ WF_vars(NextHybrid)

InChunked == Planned /\ hx.plan = "chunked"

\* every window starts after the end of the one before it, and the loop has
\* run no more iterations than current_from has advanced
ChunkProgress ==
  InChunked =>
    LET qs == hx.queries
    IN  /\ \A i \in 1..(Len(qs) - 1) : qs[i + 1].from_block > qs[i].to_block
        /\ Len(qs) <= hx.current_from - hx.from_block
        /\ Len(qs) <= hx.to_block - hx.from_block

\* C38: _get_transfers_rpc_chunked terminates for every chunk size >= 0:
\* each window starts strictly after the end of the previous one, the loop
\* runs at most to_block - from_block iterations, and a request that has
\* entered the loop returns
C38_ChunkedTerminates ==
  /\ []ChunkProgress
  /\ (hx.pc = "chunk") ~> (hx.pc = "done")

\* a request with chunk size 0 has returned after to_block - from_block
\* iterations
C38_Witness ==
  /\ InChunked /\ hx.pc = "done"
  /\ hx.max_blocks = 0
  /\ Len(hx.queries) = hx.to_block - hx.from_block
  /\ Len(hx.queries) >= 2

----------------------------------------------------------------------------
(* Specification SpecDecimals: the token info read and the value
   normalisation of _get_transfers_rpc *)

FallbackDecimals == 18
UnknownSymbol == "UNKNOWN"
TokenSymbol == "TKN"

\* what the token's decimals() answers when it answers
TokenDecimals == {0, 6, FallbackDecimals}
RawValues == {1, 25, 1000}
RawLists == UNION { [1..n -> RawValues] : n \in 1..MaxLogs }

\* `try: decimals = ...decimals().call(); symbol = ...symbol().call()`
\* `except: decimals = 18; symbol = "UNKNOWN"`
token_info(decimals_ok, symbol_ok, token_decimals) ==
  IF decimals_ok /\ symbol_ok
    THEN [decimals |-> token_decimals, symbol |-> TokenSymbol]
  ELSE [decimals |-> FallbackDecimals, symbol |-> UnknownSymbol]

\* `value_raw / (10 ** decimals)` as the fraction num / 10^exp10 in lowest
\* terms of ten
RECURSIVE normalize(_, _)
normalize(value_raw, decimals) ==
  IF decimals > 0 /\ value_raw % 10 = 0
    THEN normalize(value_raw \div 10, decimals - 1)
  ELSE [num |-> value_raw, exp10 |-> decimals]

InitDecimals ==
  /\ now = StartTime
  /\ files = EmptyDir
  /\ cache = QueryCache_init(0, DefaultMaxCacheSizeMb)
  /\ client = GraphClient_init(FALSE, Rate(0, 1), 1)
  /\ pc = "idle"
  /\ call = NoCall
  /\ op = NoOp
  /\ hist = NoHist
  /\ ncalls = 0
  /\ mx = NoMerge
  /\ hx = NoHybrid
  /\ kx = NoKey
  /\ bx = NoWrap
  /\ ax = NoAnalyze
  /\ cx = NoThreads
  /\ rl = NoLimiter
  /\ vx = NoValidate
  /\ \E raws \in RawLists, d \in TokenDecimals :
        lx = [pc |-> "token_info", raws |-> raws, token_decimals |-> d,
              decimals_ok |-> FALSE, symbol_ok |-> FALSE,
              decimals |-> 0, symbol |-> "", i |-> 0, values |-> <<>>]

\* lines 213-219: the two contract calls answer or fail
DecimalsTokenInfo ==
  /\ lx.pc = "token_info"
  /\ \E decimals_ok \in BOOLEAN, symbol_ok \in BOOLEAN :
       LET info == token_info(decimals_ok, symbol_ok, lx.token_decimals)
       IN  lx' = [lx EXCEPT !.pc = "loop", !.i = 1,
                            !.decimals_ok = decimals_ok, !.symbol_ok = symbol_ok,
                            !.decimals = info.decimals, !.symbol = info.symbol]
  /\ UNCHANGED <<clientVars, mx, hx, kx, bx, ax, cx, rl, vx>>

\* one iteration of `for log in logs`: lines 228-229
DecimalsStep ==
  /\ lx.pc = "loop"
  /\ lx.i <= Len(lx.raws)
  /\ lx' = [lx EXCEPT !.i = @ + 1,
                      !.values = Append(@, normalize(lx.raws[lx.i], lx.decimals))]
  /\ UNCHANGED <<clientVars, mx, hx, kx, bx, ax, cx, rl, vx>>

DecimalsReturn ==
  /\ lx.pc = "loop"
  /\ lx.i > Len(lx.raws)
  /\ lx' = [lx EXCEPT !.pc = "done"]
  /\ UNCHANGED <<clientVars, mx, hx, kx, bx, ax, cx, rl, vx>>

NextDecimals == DecimalsTokenInfo \/ DecimalsStep \/ DecimalsReturn

SpecDecimals == InitDecimals /\ [][NextDecimals]_vars

\* C39: whenever decimals() answered, every value is the raw value divided
\* by ten to the token's own decimals, whether or not symbol() answered; the
\* fallback to 18 decimals is used only when decimals() failed
C39_OwnDecimalsWhenAvailable ==
  (lx.pc = "done" /\ lx.decimals_ok) =>
     /\ lx.decimals = lx.token_decimals
     /\ \A i \in 1..Len(lx.raws) :
           lx.values[i] = normalize(lx.raws[i], lx.token_decimals)

----------------------------------------------------------------------------
(* Specification SpecFetcher: HybridDataFetcher.get_transfers_hybrid *)

\* Part 1: `if from_block < latest_indexed`: the blocks asked of the subgraph
indexed_range(from_block, to_block, latest_indexed) ==
  IF from_block < latest_indexed
    THEN from_block..Min(to_block, latest_indexed)
  ELSE {}

\* Part 2: `if to_block > latest_indexed`: the blocks from rpc_start on
rpc_range(from_block, to_block, latest_indexed) ==
  IF to_block > latest_indexed
    THEN Max(from_block, latest_indexed + 1)..to_block
  ELSE {}

FetcherHeads == {MaxBlock, MaxBlock + 1}

InitFetcher ==
  /\ now = StartTime
  /\ files = EmptyDir
  /\ cache = QueryCache_init(0, DefaultMaxCacheSizeMb)
  /\ client = GraphClient_init(FALSE, Rate(0, 1), 1)
  /\ pc = "idle"
  /\ call = NoCall
  /\ op = NoOp
  /\ hist = NoHist
  /\ ncalls = 0
  /\ mx = NoMerge
  /\ kx = NoKey
  /\ bx = NoWrap
  /\ NoOtherCall
  /\ \E from_block \in 0..MaxBlock :
     \E to_arg \in {NoneInt} \cup { Int_(n) : n \in from_block..MaxBlock } :
        hx = [pc |-> "args", from_block |-> from_block, to_arg |-> to_arg,
              to_block |-> 0, latest_indexed |-> 0, raised |-> FALSE,
              indexed |-> {}, rpc |-> {}, results |-> {}]

\* the whole call: the subgraph's _meta block and the chain head are read,
\* the indexed part is queried and its transfers collected, rpc_start is
\* computed; a failing subgraph query raises out of the call
FetcherCall ==
  /\ hx.pc = "args"
  /\ \E latest_indexed \in 0..(MaxBlock + 1), current_block \in FetcherHeads,
        meta_ok \in BOOLEAN, indexed_ok \in BOOLEAN :
       LET to_block == resolve_to(hx.to_arg, current_block)
           part1 == indexed_range(hx.from_block, to_block, latest_indexed)
           part2 == rpc_range(hx.from_block, to_block, latest_indexed)
       IN  IF ~meta_ok
             THEN hx' = [hx EXCEPT !.pc = "done", !.raised = TRUE]
           ELSE IF part1 # {} /\ ~indexed_ok
             THEN hx' = [hx EXCEPT !.pc = "done", !.raised = TRUE,
                                   !.to_block = to_block,
                                   !.latest_indexed = latest_indexed,
                                   !.indexed = part1]
           ELSE hx' = [hx EXCEPT !.pc = "done", !.to_block = to_block,
                                 !.latest_indexed = latest_indexed,
                                 !.indexed = part1, !.rpc = part2,
                                 !.results = part1]
  /\ UNCHANGED <<clientVars, mx, kx, bx, restVars>>

NextFetcher == FetcherCall

SpecFetcher == InitFetcher /\ [][NextFetcher]_vars

\* C40: for every from_block <= to_block and every latest indexed block, the
\* indexed sub-range and the rpc sub-range share no block and together hold
\* every block of [from_block, to_block]
C40_SubRangesPartition ==
  (hx.pc = "done" /\ ~hx.raised /\ hx.from_block <= hx.to_block) =>
     /\ hx.indexed \cap hx.rpc = {}
     /\ hx.indexed \cup hx.rpc = hx.from_block..hx.to_block

====
